---- MODULE Spec2Model ----
(***************************************************************************)
(* terraform-indexer: the in-memory blocking queue, the parser registry    *)
(* and the worker pipeline of runIndexer, as state machines.               *)
(*                                                                         *)
(*   SpecQueue     one InMemoryQueue driven by arbitrary callers           *)
(*   SpecRegistry  ParserRegistry.Register / ParserRegistry.Parse          *)
(*   SpecParsers   StateParser.Parse / TerraformParser.Parse on one file   *)
(*   SpecStore     DatabaseWriter on the two tables                        *)
(*   SpecProvider  extractProviderName on one provider string              *)
(*   Spec          runIndexer: collector, parser, writer and queue-metrics *)
(*                 workers around the file queue and the object queue      *)
(*                                                                         *)
(* The other specifications are one of these with fairness, or runIndexer  *)
(* with other collectors, another store or without the shutdown signal.    *)
(*                                                                         *)
(* Every critical section of the queue (the code between mutex.Lock and    *)
(* mutex.Unlock, or between Lock and cond.Wait, or between the return of   *)
(* cond.Wait and Unlock) is one atomic step: no other holder of the mutex  *)
(* can observe a state inside it.                                          *)
(***************************************************************************)
EXTENDS Integers, Sequences, FiniteSets, TLC

\* ------------------------------------------------------------------ bounds
\* Number of concurrent callers of Dequeue in the queue harness.
NumConsumers == 2
\* Number of items the harness enqueues in one run.
MaxEnqueues == 3

\* Number of parsers the registry harness registers in one run.
MaxParsers == 3
\* Number of resources of a state snapshot, instances of a resource, blocks
\* of a configuration and Parse calls on one file in the parser harness.
MaxStateResources == 2
MaxInstances == 2
MaxBlocks == 2
MaxParseRuns == 2
\* Number of DatabaseWriter calls in one run of the store harness, and of
\* files and of objects in one batch.
MaxStoreCalls == 3
MaxBatchFiles == 1
MaxBatchObjects == 1
\* Length of the provider strings handed to extractProviderName.
MaxProviderLen == 3
\* Number of timer ticks of one collector worker in one run.
MaxTicks == 1
\* The same in the runs without shutdown and without failures (SpecDelivery).
MaxDeliveryTicks == 2
\* Number of timer ticks of the queue-metrics worker in one run.
MaxMetricsTicks == 1

\* runIndexer: `for i := 0; i < 2; i++` starts the parser workers, and the
\* same loop again the writer workers.
NumParserWorkers == 2
NumWriterWorkers == 2

Consumers == 1..NumConsumers
Items == 1..MaxEnqueues

Range(s) == {s[i] : i \in DOMAIN s}

\* --------------------------------------------------------------- the queue
\* queue.go: InMemoryQueue[T]{items, mutex, cond}. `waiters` is the notify
\* list of cond: the goroutines parked in cond.Wait.
NewInMemoryQueue == [items |-> <<>>, waiters |-> {}]

\* sync.Cond.Signal: wakes one goroutine waiting on the condition, if there
\* is any (which one is not specified). The set of possible woken sets.
CondSignal(waiters) ==
    IF waiters = {} THEN {{}} ELSE {{w} : w \in waiters}

\* sync.Cond.Broadcast: wakes all goroutines waiting on the condition.
CondBroadcast(waiters) == waiters

\* A queue that refuses the item when the caller's context is cancelled.
Enqueue_CtxAware(q, ctxDone, item) ==
    IF ctxDone THEN {[q |-> q, woken |-> {}, err |-> "context canceled"]}
    ELSE {[q |-> [items |-> Append(q.items, item), waiters |-> q.waiters \ w],
           woken |-> w, err |-> "nil"] : w \in CondSignal(q.waiters)}

\* An enqueue that forgets to signal the condition variable.
Enqueue_NoSignal(q, ctxDone, item) ==
    {[q |-> [items |-> Append(q.items, item), waiters |-> q.waiters],
      woken |-> {}, err |-> "nil"]}

\* An enqueue that appends its item twice.
Enqueue_Duplicate(q, ctxDone, item) ==
    {[q |-> [items |-> Append(Append(q.items, item), item),
             waiters |-> q.waiters \ w],
      woken |-> w, err |-> "nil"] : w \in CondSignal(q.waiters)}

\* InMemoryQueue.Enqueue(ctx, item): Lock; append; cond.Signal; Unlock;
\* return nil. ctx is not read. The set of outcomes (one per goroutine
\* Signal may wake): the queue after, the goroutines woken, the error.
Enqueue(q, ctxDone, item) ==
    {[q |-> [items |-> Append(q.items, item), waiters |-> q.waiters \ w],
      woken |-> w, err |-> "nil"] : w \in CondSignal(q.waiters)}

\* A dequeue that never reads ctx: on an empty queue it always waits.
Dequeue_IgnoreCtx(q, self, ctxDone) ==
    IF Len(q.items) = 0
    THEN [kind |-> "park", item |-> 0,
          q |-> [q EXCEPT !.waiters = q.waiters \cup {self}]]
    ELSE [kind |-> "item", item |-> Head(q.items),
          q |-> [q EXCEPT !.items = Tail(q.items)]]

\* A non-blocking dequeue: reports a failure on an empty queue at once.
Dequeue_NoWait(q, self, ctxDone) ==
    IF Len(q.items) = 0
    THEN [kind |-> "cancelled", item |-> 0, q |-> q]
    ELSE [kind |-> "item", item |-> Head(q.items),
          q |-> [q EXCEPT !.items = Tail(q.items)]]

\* A dequeue that takes the newest item.
Dequeue_Lifo(q, self, ctxDone) ==
    IF Len(q.items) = 0
    THEN IF ctxDone
         THEN [kind |-> "cancelled", item |-> 0, q |-> q]
         ELSE [kind |-> "park", item |-> 0,
               q |-> [q EXCEPT !.waiters = q.waiters \cup {self}]]
    ELSE [kind |-> "item", item |-> q.items[Len(q.items)],
          q |-> [q EXCEPT !.items = SubSeq(q.items, 1, Len(q.items) - 1)]]

\* A dequeue that returns the head and leaves it in the queue.
Dequeue_Peek(q, self, ctxDone) ==
    IF Len(q.items) = 0
    THEN IF ctxDone
         THEN [kind |-> "cancelled", item |-> 0, q |-> q]
         ELSE [kind |-> "park", item |-> 0,
               q |-> [q EXCEPT !.waiters = q.waiters \cup {self}]]
    ELSE [kind |-> "item", item |-> Head(q.items), q |-> q]

\* A dequeue whose wait releases the mutex before it joins the notify list:
\* a Signal sent in between finds nobody to wake.
Dequeue_ParkUnlisted(q, self, ctxDone) ==
    IF Len(q.items) = 0
    THEN IF ctxDone
         THEN [kind |-> "cancelled", item |-> 0, q |-> q]
         ELSE [kind |-> "park", item |-> 0, q |-> q]
    ELSE [kind |-> "item", item |-> Head(q.items),
          q |-> [q EXCEPT !.items = Tail(q.items)]]

\* A dequeue that looks at ctx before it looks at the items.
Dequeue_CtxFirst(q, self, ctxDone) ==
    IF ctxDone
    THEN [kind |-> "cancelled", item |-> 0, q |-> q]
    ELSE IF Len(q.items) = 0
         THEN [kind |-> "park", item |-> 0,
               q |-> [q EXCEPT !.waiters = q.waiters \cup {self}]]
         ELSE [kind |-> "item", item |-> Head(q.items),
               q |-> [q EXCEPT !.items = Tail(q.items)]]

\* InMemoryQueue.Dequeue(ctx), one pass from the head of the loop
\* `for len(q.items) == 0` with the mutex held (on entry after Lock, and
\* again whenever cond.Wait returns):
\*   items present            -> item := items[0]; items = items[1:]; return
\*   empty and ctx.Done ready -> return zero, ctx.Err()
\*   empty otherwise          -> cond.Wait(): join the notify list, release
\*                               the mutex and park (item 0 is the zero value)
Dequeue(q, self, ctxDone) ==
    IF Len(q.items) = 0
    THEN IF ctxDone
         THEN [kind |-> "cancelled", item |-> 0, q |-> q]
         ELSE [kind |-> "park", item |-> 0,
               q |-> [q EXCEPT !.waiters = q.waiters \cup {self}]]
    ELSE [kind |-> "item", item |-> Head(q.items),
          q |-> [q EXCEPT !.items = Tail(q.items)]]

\* A size that nets the parked consumers against the queued items.
Size_LessWaiters(q) == Len(q.items) - Cardinality(q.waiters)

\* InMemoryQueue.Size(): RLock; len(q.items); RUnlock.
Size(q) == Len(q.items)

\* A close that wakes a single waiter.
Close_Signal(q) ==
    {[q |-> [q EXCEPT !.waiters = q.waiters \ w], woken |-> w, err |-> "nil"] :
        w \in CondSignal(q.waiters)}

\* InMemoryQueue.Close(): Lock; cond.Broadcast; Unlock; return nil.
Close(q) ==
    {[q |-> [q EXCEPT !.waiters = {}],
      woken |-> CondBroadcast(q.waiters), err |-> "nil"]}

\* --------------------------------------------------- files and collectors
\* sha256 digests (generateFileID, generateObjectID keep the first 8 bytes,
\* printed in hex) are represented by the string that is digested: equal
\* strings give equal ids, and distinct strings are taken to give distinct
\* ids.
Digest(str) == str

\* collector.go: generateFileID(source, path) digests "<source>:<path>".
generateFileID(source, path) == Digest(source \o ":" \o path)

\* collector.go: createTerraformFile. CollectedAt / UpdatedAt (time.Now())
\* are the logical time `now` of the collection.
createTerraformFile(source, path, content, fileType, now) ==
    [ID |-> generateFileID(source, path), Source |-> source,
     SourcePath |-> path, FileType |-> fileType, Content |-> content,
     CollectedAt |-> now, UpdatedAt |-> now]

\* The content of a file is kept as what the decoders make of its text. A
\* configuration: whether the text outside attribute expressions is valid
\* HCL, and its top-level blocks, each with its type, its labels, its
\* attributes (name and kind of expression: "literal", "reference" to
\* something the file does not define, or "malformed" text that is no
\* expression) and whether its body holds nested blocks. A state snapshot:
\* whether the text decodes as JSON into TerraformState, and its resources,
\* each with the number of its instances.
\* MockCollector.Collect: tfContent, one resource block with three
\* attributes; stateContent, one managed resource with one instance.
tfContent ==
    [syntaxOk |-> TRUE,
     blocks |-> <<[Type |-> "resource", Labels |-> <<"aws_instance", "example">>,
                   Attrs |-> <<[name |-> "ami", expr |-> "literal"],
                               [name |-> "instance_type", expr |-> "literal"],
                               [name |-> "tags", expr |-> "literal"]>>,
                   Nested |-> FALSE]>>]

stateContent ==
    [decodes |-> TRUE,
     resources |-> <<[Mode |-> "managed", Type |-> "aws_instance",
                      Name |-> "example", Instances |-> 1]>>]

\* MockCollector.Collect(ctx), by the collector's source; it returns no error.
MockCollect(source, now) ==
    CASE source = "s3" ->
           <<createTerraformFile(source, "s3://bucket/main.tf", tfContent, "tf", now),
             createTerraformFile(source, "s3://bucket/terraform.tfstate", stateContent, "tfstate", now)>>
      [] source = "kubernetes" ->
           <<createTerraformFile(source, "k8s://namespace/configmap/terraform-config", tfContent, "tf", now)>>
      [] source = "bitbucket" ->
           <<createTerraformFile(source, "bitbucket://repo/main.tf", tfContent, "tf", now)>>
      [] OTHER ->
           <<createTerraformFile(source, "main.tf", tfContent, "tf", now),
             createTerraformFile(source, "terraform.tfstate", stateContent, "tfstate", now)>>

\* ------------------------------------------------------------- the parsers
\* part_001: generateObjectID(fileID, resourceType, name, index) digests
\* "<fileID>:<resourceType>:<name>:<index>".
generateObjectID(fileID, resourceType, name, index) ==
    Digest(fileID \o ":" \o resourceType \o ":" \o name \o ":" \o ToString(index))

\* A state parser that emits one object per resource, whatever the number of
\* its instances.
StateInstances_OnePerResource(file, resource, i) ==
    IF i > 0 THEN <<>>
    ELSE <<[ID |-> generateObjectID(file.ID, resource.Type, resource.Name, 0),
            FileID |-> file.ID, Type |-> "resource", Name |-> resource.Name,
            ResourceType |-> resource.Type,
            Address |-> resource.Type \o "." \o resource.Name,
            Configuration |-> <<>>, Index |-> 0]>>

\* StateParser.Parse, the inner loop: one object per instance of a resource,
\* instance i (from 0) of n.
RECURSIVE StateInstances(_, _, _)
StateInstances(file, resource, i) ==
    IF i >= resource.Instances THEN <<>>
    ELSE <<[ID |-> generateObjectID(file.ID, resource.Type, resource.Name, i),
            FileID |-> file.ID, Type |-> "resource", Name |-> resource.Name,
            ResourceType |-> resource.Type,
            Address |-> resource.Type \o "." \o resource.Name,
            Configuration |-> <<>>, Index |-> i]>>
         \o StateInstances(file, resource, i + 1)

\* StateParser.Parse, the outer loop over state.Resources from resource k.
RECURSIVE StateResources(_, _)
StateResources(file, k) ==
    IF k > Len(file.Content.resources) THEN <<>>
    ELSE StateInstances(file, file.Content.resources[k], 0)
         \o StateResources(file, k + 1)

\* StateParser.Parse: json.Unmarshal of the whole content fails the file;
\* otherwise the objects of every instance of every resource.
StateParserParse(file) ==
    IF ~file.Content.decodes
    THEN [objects |-> <<>>, err |-> "failed to parse state file"]
    ELSE [objects |-> StateResources(file, 1), err |-> "nil"]

\* TerraformParser.Parse, the block schema handed to PartialContent: the
\* number of labels of each block type.
BlockLabels ==
    [resource |-> 2, provider |-> 1, variable |-> 1, output |-> 1,
     module |-> 1, data |-> 2]

\* TerraformParser.extractSimpleValue: fmt.Sprintf("%v", expr) and a nil
\* error, whatever the expression is.
extractSimpleValue(expr) == [val |-> "%v(" \o expr \o ")", err |-> "nil"]

\* TerraformParser.extractConfiguration: body.JustAttributes() fails on a
\* body with nested blocks (the empty map and an error are returned);
\* otherwise every attribute gets the value extractSimpleValue returns, or
\* the same rendering of its expression when that fails.
extractConfiguration(block) ==
    IF block.Nested
    THEN [config |-> <<>>, err |-> "failed to get attributes"]
    ELSE [config |-> [n \in {block.Attrs[k].name : k \in DOMAIN block.Attrs} |->
                        LET k == CHOOSE k \in DOMAIN block.Attrs : block.Attrs[k].name = n
                            v == extractSimpleValue(block.Attrs[k].expr)
                        IN IF v.err = "nil" THEN v.val
                           ELSE "%v(" \o block.Attrs[k].expr \o ")"],
          err |-> "nil"]

\* TerraformParser.parseBlock: the object of one block (two-label blocks
\* carry the resource type in Labels[0], all take the digest of the block
\* type, the name and index 0).
parseBlock(fileID, block) ==
    LET two == block.Type \in {"resource", "data"}
        name == IF two THEN block.Labels[2] ELSE block.Labels[1]
        resourceType == IF two THEN block.Labels[1] ELSE ""
        address ==
            CASE block.Type = "resource" -> resourceType \o "." \o name
              [] block.Type = "provider" -> "provider." \o name
              [] block.Type = "variable" -> "var." \o name
              [] block.Type = "output" -> "output." \o name
              [] block.Type = "module" -> "module." \o name
              [] block.Type = "data" -> "data." \o resourceType \o "." \o name
        config == extractConfiguration(block)
    IN [ID |-> generateObjectID(fileID, block.Type, name, 0),
        FileID |-> fileID, Type |-> block.Type, Name |-> name,
        ResourceType |-> resourceType, Address |-> address,
        Configuration |-> IF config.err # "nil" THEN <<>> ELSE config.config,
        Index |-> 0]

\* TerraformParser.Parse, the loop over content.Blocks from block k.
RECURSIVE TerraformBlocks(_, _, _)
TerraformBlocks(fileID, blocks, k) ==
    IF k > Len(blocks) THEN <<>>
    ELSE <<parseBlock(fileID, blocks[k])>> \o TerraformBlocks(fileID, blocks, k + 1)

\* hclparse.Parser.ParseHCL: the whole text has to be valid HCL, so text
\* that is no expression where an attribute's value should be fails the file
\* like any other syntax error.
ParseHCLFails(content) ==
    \/ ~content.syntaxOk
    \/ \E k \in DOMAIN content.blocks :
         \E a \in DOMAIN content.blocks[k].Attrs :
            content.blocks[k].Attrs[a].expr = "malformed"

\* A configuration parser that leaves out the blocks with the wrong number
\* of labels and keeps the others.
TerraformParserParse_Salvage(file) ==
    LET sound == SelectSeq(file.Content.blocks,
                           LAMBDA b : /\ b.Type \in DOMAIN BlockLabels
                                      /\ Len(b.Labels) = BlockLabels[b.Type])
    IN IF ParseHCLFails(file.Content)
       THEN [objects |-> <<>>, err |-> "failed to parse HCL"]
       ELSE [objects |-> TerraformBlocks(file.ID, sound, 1), err |-> "nil"]

\* TerraformParser.Parse: a syntax error fails the file; PartialContent
\* keeps the blocks whose type is in the schema and fails the file when one
\* of them has the wrong number of labels.
TerraformParserParse(file) ==
    LET known == SelectSeq(file.Content.blocks,
                           LAMBDA b : b.Type \in DOMAIN BlockLabels)
    IN IF ParseHCLFails(file.Content)
       THEN [objects |-> <<>>, err |-> "failed to parse HCL"]
       ELSE IF \E k \in DOMAIN known : Len(known[k].Labels) # BlockLabels[known[k].Type]
       THEN [objects |-> <<>>, err |-> "failed to parse content"]
       ELSE [objects |-> TerraformBlocks(file.ID, known, 1), err |-> "nil"]

\* The two parsers runIndexer registers, and test doubles of the Parser
\* interface: a plugin is its name, the file types CanParse accepts and
\* whether its Parse fails.
StateParser == [name |-> "StateParser", accepts |-> {"tfstate"}, fails |-> FALSE]
TerraformParser == [name |-> "TerraformParser", accepts |-> {"tf"}, fails |-> FALSE]

\* Parser.CanParse(fileType).
CanParse(parser, fileType) == fileType \in parser.accepts

\* Parser.Parse(ctx, file) of a plugin; a test double returns one object
\* that names it, or its error.
ParserParse(parser, file) ==
    CASE parser.name = "StateParser" -> StateParserParse(file)
      [] parser.name = "TerraformParser" -> TerraformParserParse(file)
      [] OTHER ->
           IF parser.fails
           THEN [objects |-> <<>>, err |-> "error of " \o parser.name]
           ELSE [objects |-> <<[ID |-> generateObjectID(file.ID, parser.name, "stub", 0),
                                FileID |-> file.ID, Type |-> "resource",
                                Name |-> "stub", ResourceType |-> parser.name,
                                Address |-> parser.name \o ".stub",
                                Configuration |-> <<>>, Index |-> 0]>>,
                 err |-> "nil"]

\* ------------------------------------------------------ the parser registry
\* NewParserRegistry: parsers: make([]Parser, 0).
NewParserRegistry == <<>>

\* ParserRegistry.Register: r.parsers = append(r.parsers, parser).
Register(parsers, parser) == Append(parsers, parser)

\* A dispatch that lets the last matching parser win.
RECURSIVE RegistryParseFrom_LastWins(_, _, _)
RegistryParseFrom_LastWins(parsers, file, i) ==
    LET n == Len(parsers) + 1 - i IN
    IF i > Len(parsers)
    THEN [canParseCalls |-> <<>>, parseCalls |-> <<>>, objects |-> <<>>, err |-> "nil"]
    ELSE IF CanParse(parsers[n], file.FileType)
         THEN LET r == ParserParse(parsers[n], file)
              IN [canParseCalls |-> <<n>>, parseCalls |-> <<n>>,
                  objects |-> r.objects, err |-> r.err]
         ELSE LET rest == RegistryParseFrom_LastWins(parsers, file, i + 1)
              IN [rest EXCEPT !.canParseCalls = <<n>> \o rest.canParseCalls]

\* A dispatch that reports a file no parser accepts as an error.
RECURSIVE RegistryParseFrom_Strict(_, _, _)
RegistryParseFrom_Strict(parsers, file, i) ==
    IF i > Len(parsers)
    THEN [canParseCalls |-> <<>>, parseCalls |-> <<>>, objects |-> <<>>,
          err |-> "no parser found"]
    ELSE IF CanParse(parsers[i], file.FileType)
         THEN LET r == ParserParse(parsers[i], file)
              IN [canParseCalls |-> <<i>>, parseCalls |-> <<i>>,
                  objects |-> r.objects, err |-> r.err]
         ELSE LET rest == RegistryParseFrom_Strict(parsers, file, i + 1)
              IN [rest EXCEPT !.canParseCalls = <<i>> \o rest.canParseCalls]

\* ParserRegistry.Parse, the loop `for _, parser := range r.parsers` from
\* index i: the first parser whose CanParse accepts file.FileType parses the
\* file and its result is returned; past the end, an empty slice and nil.
\* canParseCalls / parseCalls: the indices of the parsers whose CanParse /
\* Parse the loop called, in call order.
RECURSIVE RegistryParseFrom(_, _, _)
RegistryParseFrom(parsers, file, i) ==
    IF i > Len(parsers)
    THEN [canParseCalls |-> <<>>, parseCalls |-> <<>>, objects |-> <<>>, err |-> "nil"]
    ELSE IF CanParse(parsers[i], file.FileType)
         THEN LET r == ParserParse(parsers[i], file)
              IN [canParseCalls |-> <<i>>, parseCalls |-> <<i>>,
                  objects |-> r.objects, err |-> r.err]
         ELSE LET rest == RegistryParseFrom(parsers, file, i + 1)
              IN [rest EXCEPT !.canParseCalls = <<i>> \o rest.canParseCalls]

\* ParserRegistry.Parse(ctx, file).
RegistryParse(parsers, file) == RegistryParseFrom(parsers, file, 1)

\* ---------------------------------------------------------------- the store
\* The database after Migrate: both tables exist and are empty. A table is
\* the set of its rows.
NewStore == [files |-> {}, objects |-> {}]

\* An INSERT without the ON CONFLICT clause on a table without a primary key.
Upsert_Insert(table, row, updated) == table \cup {row}

\* INSERT ... ON CONFLICT (id) DO UPDATE SET <updated columns> =
\* EXCLUDED.<updated columns> on a table whose primary key is the id: a new
\* id adds the row, a known id overwrites the updated columns of its row.
Upsert(table, row, updated) ==
    IF \E old \in table : old.ID = row.ID
    THEN {IF old.ID = row.ID
          THEN [c \in DOMAIN old |-> IF c \in updated THEN row[c] ELSE old[c]]
          ELSE old : old \in table}
    ELSE table \cup {row}

\* DatabaseWriter.WriteFile on database db, when the server answers the
\* statement with `answer`: the upsert of the file's row, which on a conflict
\* updates content and updated_at (content_hash follows the content).
StoreWriteFile(db, file, answer) ==
    IF answer # "nil"
    THEN [db |-> db, err |-> "failed to write file"]
    ELSE [db |-> [db EXCEPT !.files = Upsert(db.files, file, {"Content", "UpdatedAt"})],
          err |-> "nil"]

\* DatabaseWriter.WriteObject on database db: the upsert of the object's
\* row, which on a conflict updates configuration (dependencies and
\* updated_at are not kept in the objects); the foreign key on file_id
\* rejects a row whose file is not in terraform_files.
StoreWriteObject(db, obj, answer) ==
    IF answer # "nil" \/ ~\E f \in db.files : f.ID = obj.FileID
    THEN [db |-> db, err |-> "failed to write object"]
    ELSE [db |-> [db EXCEPT !.objects = Upsert(db.objects, obj, {"Configuration"})],
          err |-> "nil"]

\* DatabaseWriter.WriteBatch from its k-th statement on (the files first,
\* then the objects): writeFileInTx and writeObjectInTx call WriteFile and
\* WriteObject, which execute on w.db and not on tx; the first failure
\* returns, and tx.Commit() comes last. `fault` is what fails: BeginTx (0),
\* statement number fault, Commit (one past the last statement), or nothing
\* (beyond that). Nothing was executed on tx, so neither tx.Commit() nor the
\* deferred tx.Rollback() changes the database.
RECURSIVE BatchFrom(_, _, _, _, _)
BatchFrom(db, files, objects, k, fault) ==
    LET n == Len(files) + Len(objects)
    IN IF k > n
       THEN IF fault = n + 1
            THEN [db |-> db, err |-> "failed to commit transaction"]
            ELSE [db |-> db, err |-> "nil"]
       ELSE LET answer == IF fault = k THEN "store error" ELSE "nil"
                r == IF k <= Len(files)
                     THEN StoreWriteFile(db, files[k], answer)
                     ELSE StoreWriteObject(db, objects[k - Len(files)], answer)
            IN IF r.err # "nil"
               THEN [db |-> r.db, err |-> r.err \o " in batch"]
               ELSE BatchFrom(r.db, files, objects, k + 1, fault)

\* DatabaseWriter.WriteBatch(ctx, files, objects): w.db.BeginTx, the
\* statements, tx.Commit.
WriteBatch(db, files, objects, fault) ==
    IF fault = 0
    THEN [db |-> db, err |-> "failed to begin transaction"]
    ELSE BatchFrom(db, files, objects, 1, fault)

\* ------------------------------------------------------- the provider name
\* The largest and the smallest of a non-empty set of indices.
LastOf(S) == CHOOSE i \in S : \A j \in S : j <= i
FirstOf(S) == CHOOSE i \in S : \A j \in S : i <= j

\* part_001: extractProviderName(provider), on the string as the sequence of
\* its characters, with the indices of the code (from 0):
\*   len(provider) == 0 -> ""
\*   start := len - 1; the downward loop sets start to one past the last "/"
\*   end := len; the upward loop from start sets end to the first '"' or ']'
\*   start < end -> provider[start:end]; otherwise provider
extractProviderName(provider) ==
    LET n == Len(provider)
        slashes == {i \in 0..(n - 1) : provider[i + 1] = "/"}
        start == IF slashes = {} THEN n - 1 ELSE LastOf(slashes) + 1
        stops == {i \in start..(n - 1) : provider[i + 1] \in {"\"", "]"}}
        end == IF stops = {} THEN n ELSE FirstOf(stops)
    IN IF n = 0 THEN <<>>
       ELSE IF start < end THEN SubSeq(provider, start + 1, end)
       ELSE provider

\* ---------------------------------------------------------------- state
VARIABLES
    \* the queue harness
    queue,      \* the InMemoryQueue under test
    callPc,     \* per consumer: where it is in its Dequeue call
    callCtx,    \* per consumer: TRUE once the ctx it passes is cancelled
    received,   \* per consumer: the items its Dequeue calls returned, in order
    enqueued,   \* the items enqueued so far, in order
    firstTake,  \* Len(enqueued) when the first item was returned (0: none yet)
    closedEver, \* TRUE once Close has been called
    lastOp,     \* the last queue operation and what it returned
    \* the registry harness
    registry,   \* ParserRegistry.parsers
    registered, \* the parsers handed to Register so far, in call order
    dispatch,   \* the last ParserRegistry.Parse call: its file and what it did
    \* the parser harness
    parseFile,  \* the file handed to the parsers
    parseRuns,  \* what each parserRegistry.Parse call on it returned, in order
    \* the store harness
    store,      \* the tables terraform_files and terraform_objects
    storeLog,   \* <<the last DatabaseWriter call>>: arguments, result, tables
    storeCalls, \* the number of DatabaseWriter calls made
    \* the provider-name harness
    provider,   \* the provider string of a state resource, character by character
    extraction, \* whether extractProviderName was called on it, and its result
    \* runIndexer
    mainPc,     \* where runIndexer is
    cancelled,  \* TRUE once cancel() closed ctx.Done()
    wg,         \* the WaitGroup's counter
    dbOpen,     \* TRUE from db.NewDB until database.Close
    fileQueue,  \* queue.NewFileQueue()
    objectQueue,\* queue.NewObjectQueue()
    wpc,        \* per worker goroutine: where it is
    hand,       \* per worker: <<the file or object it dequeued>>, or <<>>
    pending,    \* per worker: the files or objects it still has to enqueue
    ticks,      \* per timer-driven worker: the ticks it has taken
    collected,  \* the files enqueued on the file queue, in order
    written,    \* the objects WriteObject stored, in order
    counters    \* the metrics counters

queueVars == <<queue, callPc, callCtx, received, enqueued, firstTake,
               closedEver, lastOp>>
registryVars == <<registry, registered, dispatch>>
pipelineVars == <<mainPc, cancelled, wg, dbOpen, fileQueue, objectQueue, wpc,
                  hand, pending, ticks, collected, written, counters>>
parserVars == <<parseFile, parseRuns>>
storeVars == <<store, storeLog, storeCalls>>
providerVars == <<provider, extraction>>
vars == <<queueVars, registryVars, parserVars, storeVars, providerVars, pipelineVars>>
nonQueueVars == <<registryVars, parserVars, storeVars, providerVars, pipelineVars>>
nonRegistryVars == <<queueVars, parserVars, storeVars, providerVars, pipelineVars>>
nonParserVars == <<queueVars, registryVars, storeVars, providerVars, pipelineVars>>
nonStoreVars == <<queueVars, registryVars, parserVars, providerVars, pipelineVars>>
nonProviderVars == <<queueVars, registryVars, parserVars, storeVars, pipelineVars>>
nonPipelineVars == <<queueVars, registryVars, parserVars, storeVars, providerVars>>

\* ------------------------------------------------------- the queue harness
NoOp == [op |-> "none", who |-> 0, item |-> 0, ctx |-> FALSE, ret |-> "none",
         resumed |-> FALSE]

QueueInit ==
    /\ queue = NewInMemoryQueue
    /\ callPc = [c \in Consumers |-> "idle"]
    /\ callCtx = [c \in Consumers |-> FALSE]
    /\ received = [c \in Consumers |-> <<>>]
    /\ enqueued = <<>>
    /\ firstTake = 0
    /\ closedEver = FALSE
    /\ lastOp = NoOp

\* The goroutines cond.Signal / cond.Broadcast made runnable leave cond.Wait
\* and contend for the mutex again.
Wake(pcs, woken) ==
    [c \in DOMAIN pcs |-> IF c \in woken THEN "woken" ELSE pcs[c]]

\* A producer calls Enqueue with a fresh item; its ctx may be cancelled.
\* Items are opaque to the queue (it never inspects T), so the harness names
\* them 1, 2, ... in the order they are handed in.
QEnqueue ==
    \E item \in {Len(enqueued) + 1} \cap Items, d \in BOOLEAN :
      \E o \in Enqueue(queue, d, item) :
        /\ queue' = o.q
        /\ callPc' = Wake(callPc, o.woken)
        /\ enqueued' = IF o.err = "nil" THEN Append(enqueued, item) ELSE enqueued
        /\ lastOp' = [op |-> "Enqueue", who |-> 0, item |-> item, ctx |-> d,
                      ret |-> o.err, resumed |-> FALSE]
        /\ UNCHANGED <<callCtx, received, firstTake, closedEver>>
        /\ UNCHANGED nonQueueVars

\* A consumer calls Dequeue(ctx): it is now about to take the mutex.
QCall(c) ==
    /\ callPc[c] = "idle"
    /\ callPc' = [callPc EXCEPT ![c] = "calling"]
    /\ lastOp' = NoOp
    /\ UNCHANGED <<queue, callCtx, received, enqueued, firstTake, closedEver>>
    /\ UNCHANGED nonQueueVars

\* A consumer holds the mutex at the head of Dequeue's loop: on entry, or
\* after cond.Wait returned.
QDequeue(c) ==
    /\ callPc[c] \in {"calling", "woken"}
    /\ LET r == Dequeue(queue, c, callCtx[c]) IN
        /\ queue' = r.q
        /\ callPc' = [callPc EXCEPT ![c] = IF r.kind = "park" THEN "parked" ELSE "idle"]
        /\ received' = IF r.kind = "item"
                       THEN [received EXCEPT ![c] = Append(received[c], r.item)]
                       ELSE received
        /\ firstTake' = IF r.kind = "item" /\ firstTake = 0
                        THEN Len(enqueued) ELSE firstTake
        /\ lastOp' = [op |-> "Dequeue", who |-> c, item |-> r.item,
                      ctx |-> callCtx[c], ret |-> r.kind,
                      resumed |-> (callPc[c] = "woken")]
    /\ UNCHANGED <<callCtx, enqueued, closedEver>>
    /\ UNCHANGED nonQueueVars

\* The context a consumer passes is cancelled.
QCancel(c) ==
    /\ ~callCtx[c]
    /\ callCtx' = [callCtx EXCEPT ![c] = TRUE]
    /\ lastOp' = NoOp
    /\ UNCHANGED <<queue, callPc, received, enqueued, firstTake, closedEver>>
    /\ UNCHANGED nonQueueVars

\* Somebody calls Close.
QClose ==
    \E o \in Close(queue) :
        /\ queue' = o.q
        /\ callPc' = Wake(callPc, o.woken)
        /\ closedEver' = TRUE
        /\ lastOp' = [op |-> "Close", who |-> 0, item |-> 0, ctx |-> FALSE,
                      ret |-> o.err, resumed |-> FALSE]
        /\ UNCHANGED <<callCtx, received, enqueued, firstTake>>
        /\ UNCHANGED nonQueueVars

\* Somebody calls Size: it holds the read lock, so it runs between the
\* critical sections of the other operations; it returns the count (kept in
\* the item field of the record of the call) and writes nothing.
QSize ==
    /\ lastOp' = [op |-> "Size", who |-> 0, item |-> Size(queue), ctx |-> FALSE,
                  ret |-> "size", resumed |-> FALSE]
    /\ UNCHANGED <<queue, callPc, callCtx, received, enqueued, firstTake,
                   closedEver>>
    /\ UNCHANGED nonQueueVars

\* The steps a consumer takes by itself inside or around a Dequeue call.
ConsumerStep(c) == QCall(c) \/ QDequeue(c)

\* ---------------------------------------------------- the registry harness
\* The parsers the harness registers: the two real ones, test doubles A and
\* B that accept "tf" alone or both file types, and a double whose Parse fails.
ParserPool ==
    {StateParser, TerraformParser}
    \cup {[name |-> n, accepts |-> a, fails |-> FALSE] :
            n \in {"A", "B"}, a \in {{"tf"}, {"tf", "tfstate"}}}
    \cup {[name |-> "F", accepts |-> {"tfstate"}, fails |-> TRUE]}

\* The files the harness dispatches: the mock collector's two files and one
\* with a content type no parser knows.
DispatchFiles ==
    Range(MockCollect("s3", 1))
    \cup {createTerraformFile("s3", "s3://bucket/notes.txt", tfContent, "txt", 1)}

NoDispatch == [called |-> FALSE, file |-> [FileType |-> ""], parsers |-> <<>>,
               registered |-> <<>>,
               canParseCalls |-> <<>>, parseCalls |-> <<>>, objects |-> <<>>,
               err |-> "nil"]

RegistryInit ==
    /\ registry = NewParserRegistry
    /\ registered = <<>>
    /\ dispatch = NoDispatch

RRegister ==
    /\ Len(registry) < MaxParsers
    /\ \E parser \in ParserPool :
        /\ registry' = Register(registry, parser)
        /\ registered' = Append(registered, parser)
    /\ UNCHANGED dispatch
    /\ UNCHANGED nonRegistryVars

RParse ==
    \E file \in DispatchFiles :
        LET r == RegistryParse(registry, file) IN
        /\ dispatch' = [called |-> TRUE, file |-> file, parsers |-> registry,
                        registered |-> registered,
                        canParseCalls |-> r.canParseCalls,
                        parseCalls |-> r.parseCalls,
                        objects |-> r.objects, err |-> r.err]
        /\ UNCHANGED <<registry, registered>>
        /\ UNCHANGED nonRegistryVars

\* runIndexer registers the state parser, then the configuration parser.
parserRegistry == Register(Register(NewParserRegistry, StateParser), TerraformParser)

\* ------------------------------------------------------ the parser harness
\* All sequences over S of length at most n.
SeqsUpTo(S, n) == UNION {[1..k -> S] : k \in 0..n}

\* The resources of the state snapshots under test: types and names, some
\* with a ":" in them, and zero or more instances.
ResourcePool ==
    [Mode : {"managed"}, Type : {"aws_instance", "a", "a:b"},
     Name : {"example", "c", "b:c"}, Instances : 0..MaxInstances]

\* The attribute lists of the blocks under test: none; three literals; two
\* literals around a reference that cannot be resolved; two literals around
\* text that is no expression.
AttrPool_Literals ==
    <<[name |-> "ami", expr |-> "literal"],
      [name |-> "instance_type", expr |-> "literal"],
      [name |-> "tags", expr |-> "literal"]>>

AttrPool ==
    {<<>>,
     AttrPool_Literals,
     <<[name |-> "ami", expr |-> "literal"],
       [name |-> "instance_type", expr |-> "reference"],
       [name |-> "tags", expr |-> "literal"]>>,
     <<[name |-> "ami", expr |-> "literal"],
       [name |-> "instance_type", expr |-> "malformed"],
       [name |-> "tags", expr |-> "literal"]>>}

\* The blocks of the configurations under test: resources and data sources
\* of two types and two names, a variable, a block type outside the schema,
\* a resource with one label too few, and a resource with a nested block.
BlockPool ==
    [Type : {"resource", "data"}, Labels : {<<"aws_instance", "example">>,
                                            <<"aws_s3_bucket", "example">>,
                                            <<"aws_instance", "web">>},
     Attrs : AttrPool, Nested : {FALSE}]
    \cup [Type : {"variable", "locals"}, Labels : {<<"example">>},
          Attrs : {<<>>}, Nested : {FALSE}]
    \cup [Type : {"resource"}, Labels : {<<"example">>, <<"aws_instance", "example">>},
          Attrs : {AttrPool_Literals}, Nested : {TRUE}]

\* The files under test: state snapshots and configurations over the pools,
\* some of which do not decode.
ParseInputs ==
    {createTerraformFile("s3", "s3://bucket/terraform.tfstate",
                         [decodes |-> d, resources |-> rs], "tfstate", 1) :
        d \in BOOLEAN, rs \in SeqsUpTo(ResourcePool, MaxStateResources)}
    \cup {createTerraformFile("s3", "s3://bucket/main.tf",
                              [syntaxOk |-> ok, blocks |-> bs], "tf", 1) :
        ok \in BOOLEAN, bs \in SeqsUpTo(BlockPool, MaxBlocks)}

\* Outside the harness no file is under test.
ParserInit ==
    /\ parseFile = MockCollect("s3", 1)[1]
    /\ parseRuns = <<>>

\* The harness starts from any of the files under test.
ParserHarnessInit ==
    /\ parseFile \in ParseInputs
    /\ parseRuns = <<>>

\* parserRegistry.Parse(ctx, file) of runIndexer's registry on the file.
PParse ==
    /\ Len(parseRuns) < MaxParseRuns
    /\ parseRuns' = Append(parseRuns, RegistryParse(parserRegistry, parseFile))
    /\ UNCHANGED parseFile
    /\ UNCHANGED nonParserVars

\* ------------------------------------------------ the provider-name harness
\* The characters of the provider strings under test: the path separator,
\* the two characters that end a name, and two letters.
ProviderAlphabet == {"/", "\"", "]", "a", "w"}

\* The provider strings under test.
ProviderInputs == SeqsUpTo(ProviderAlphabet, MaxProviderLen)

NoExtraction == [called |-> FALSE, name |-> <<>>]

\* Outside the harness no provider string is under test.
ProviderInit ==
    /\ provider = <<>>
    /\ extraction = NoExtraction

\* The harness starts from any of the provider strings under test.
ProviderHarnessInit ==
    /\ provider \in ProviderInputs
    /\ extraction = NoExtraction

\* StateParser.Parse: ProviderName: extractProviderName(resource.Provider).
PExtract ==
    /\ ~extraction.called
    /\ extraction' = [called |-> TRUE, name |-> extractProviderName(provider)]
    /\ UNCHANGED provider
    /\ UNCHANGED nonProviderVars

\* What the store can answer to a write: success or an error.
StoreAnswers == {"nil", "store error"}

\* ------------------------------------------------------- the store harness
\* The files written in the harness: the mock collector's configuration as
\* collected on two ticks (one id, two timestamps).
StoreFiles ==
    {MockCollect("s3", 1)[1], MockCollect("s3", 2)[1]}

\* The objects written in the harness: the object of the mock configuration,
\* the object of the same block after its attributes were removed (same id,
\* another configuration), and the object of the mock state snapshot (whose
\* file is never written).
StoreObjects ==
    Range(TerraformParserParse(MockCollect("s3", 1)[1]).objects)
    \cup Range(TerraformParserParse(
            createTerraformFile("s3", "s3://bucket/main.tf",
                [syntaxOk |-> TRUE,
                 blocks |-> <<[Type |-> "resource",
                               Labels |-> <<"aws_instance", "example">>,
                               Attrs |-> <<>>, Nested |-> FALSE]>>],
                "tf", 2)).objects)
    \cup Range(StateParserParse(MockCollect("s3", 1)[2]).objects)

\* What can fail in a batch of n statements: BeginTx (0), one of the
\* statements (1..n), Commit (n + 1), or nothing (n + 2).
BatchFaults(n) == 0..(n + 2)

StoreInit ==
    /\ store = NewStore
    /\ storeLog = <<>>
    /\ storeCalls = 0

\* The log after one more call.
Logged(entry) == <<entry>>

\* The log entry of a DatabaseWriter call that returned r; `again` tells
\* that the call before it was the same call and that both returned nil.
LogEntry(op, files, objects, r) ==
    [op |-> op, files |-> files, objects |-> objects, err |-> r.err,
     before |-> store, after |-> r.db,
     again |-> /\ storeLog # <<>>
               /\ storeLog[1].op = op
               /\ storeLog[1].files = files
               /\ storeLog[1].objects = objects
               /\ storeLog[1].err = "nil"
               /\ r.err = "nil"]

\* dbWriter.WriteFile(ctx, file).
SWriteFile ==
    /\ storeCalls < MaxStoreCalls
    /\ \E file \in StoreFiles, answer \in StoreAnswers :
        LET r == StoreWriteFile(store, file, answer) IN
        /\ store' = r.db
        /\ storeLog' = Logged(LogEntry("WriteFile", <<file>>, <<>>, r))
    /\ storeCalls' = storeCalls + 1
    /\ UNCHANGED nonStoreVars

\* dbWriter.WriteObject(ctx, obj).
SWriteObject ==
    /\ storeCalls < MaxStoreCalls
    /\ \E obj \in StoreObjects, answer \in StoreAnswers :
        LET r == StoreWriteObject(store, obj, answer) IN
        /\ store' = r.db
        /\ storeLog' = Logged(LogEntry("WriteObject", <<>>, <<obj>>, r))
    /\ storeCalls' = storeCalls + 1
    /\ UNCHANGED nonStoreVars

\* dbWriter.WriteBatch(ctx, files, objects).
SWriteBatch ==
    /\ storeCalls < MaxStoreCalls
    /\ \E files \in SeqsUpTo(StoreFiles, MaxBatchFiles),
          objects \in SeqsUpTo(StoreObjects, MaxBatchObjects) :
        \E fault \in BatchFaults(Len(files) + Len(objects)) :
            LET r == WriteBatch(store, files, objects, fault) IN
            /\ store' = r.db
            /\ storeLog' = Logged(LogEntry("WriteBatch", files, objects, r))
    /\ storeCalls' = storeCalls + 1
    /\ UNCHANGED nonStoreVars

\* ---------------------------------------------------------------- runIndexer
\* The enabled collectors of the configuration, by source.
CollectorSources == <<"s3">>

CollectorWorkers == {<<"collector", i>> : i \in DOMAIN CollectorSources}
\* A pool of one parser worker.
ParserWorkers_Single == {<<"parser", 1>>}
ParserWorkers == {<<"parser", i>> : i \in 1..NumParserWorkers}
WriterWorkers == {<<"writer", i>> : i \in 1..NumWriterWorkers}
MetricsWorker == <<"metrics", 1>>
Workers == CollectorWorkers \cup ParserWorkers \cup WriterWorkers \cup {MetricsWorker}

CounterNames == {"files_collected", "collect_failed", "objects_parsed",
                 "parse_failed", "objects_written", "write_failed",
                 "enqueue_failed", "dequeue_failed"}

Inc(c, name) == [c EXCEPT ![name] = c[name] + 1]

\* sync.WaitGroup: Add, Done, and the condition under which Wait returns.
WgAdd(n, delta) == n + delta
\* A worker whose exit path signals the barrier twice.
WgDone_Twice(n) == n - 2

WgDone(n) == n - 1

\* A barrier that does not wait.
WgWaitReturns_NoWait(n) == TRUE

WgWaitReturns(n) == n = 0

\* What startup can do: every step succeeds, or viper.ReadInConfig, db.NewDB
\* or database.Migrate fails.
StartupOutcomes == {"ok", "config_failed", "connect_failed", "migrate_failed"}

\* What Collector.Collect can return on a tick at logical time `now`: the
\* files of the source, or an error.
CollectOutcomes(source, now) ==
    {[files |-> MockCollect(source, now), err |-> "nil"],
     [files |-> <<>>, err |-> "collect failed"]}

\* What an implementation of the Collector interface other than the mock can
\* also return: a file whose FileType no registered parser accepts.
ForeignCollect(source, now) ==
    <<createTerraformFile(source, "s3://bucket/notes.txt", tfContent, "txt", now)>>

\* Collect of any Collector: what the mock returns, an error, or foreign files.
AnyCollectOutcomes(source, now) ==
    CollectOutcomes(source, now)
    \cup {[files |-> ForeignCollect(source, now), err |-> "nil"]}

\* What a collector can also return when the source holds a damaged file: a
\* state snapshot whose text is no JSON, followed by a sound configuration.
BrokenCollect(source, now) ==
    <<createTerraformFile(source, "s3://bucket/terraform.tfstate",
                          [decodes |-> FALSE, resources |-> <<>>], "tfstate", now),
      createTerraformFile(source, "s3://bucket/main.tf", tfContent, "tf", now)>>

\* Collect of a collector whose source may be unreachable or hold a damaged
\* file.
FaultyCollectOutcomes(source, now) ==
    CollectOutcomes(source, now)
    \cup {[files |-> BrokenCollect(source, now), err |-> "nil"]}

\* What a collector returns from a source with larger files: a configuration
\* of two blocks and a state snapshot of one resource with two instances.
RichCollect(source, now) ==
    <<createTerraformFile(source, "s3://bucket/main.tf",
          [syntaxOk |-> TRUE,
           blocks |-> <<[Type |-> "provider", Labels |-> <<"aws">>,
                         Attrs |-> <<[name |-> "region", expr |-> "literal"]>>,
                         Nested |-> FALSE]>>
                      \o tfContent.blocks],
          "tf", now),
      createTerraformFile(source, "s3://bucket/terraform.tfstate",
          [decodes |-> TRUE,
           resources |-> <<[Mode |-> "managed", Type |-> "aws_instance",
                            Name |-> "example", Instances |-> 2]>>],
          "tfstate", now)>>

\* Collect of such a source.
RichCollectOutcomes(source, now) ==
    {[files |-> RichCollect(source, now), err |-> "nil"]}

\* Collect when the source is reachable.
CollectSuccesses(source, now) ==
    {o \in CollectOutcomes(source, now) : o.err = "nil"}

PipelineInit ==
    /\ mainPc = "startup"
    /\ cancelled = FALSE
    /\ wg = 0
    /\ dbOpen = FALSE
    /\ fileQueue = NewInMemoryQueue
    /\ objectQueue = NewInMemoryQueue
    /\ wpc = [w \in Workers |-> "unstarted"]
    /\ hand = [w \in Workers |-> <<>>]
    /\ pending = [w \in Workers |-> <<>>]
    /\ ticks = [w \in CollectorWorkers \cup {MetricsWorker} |-> 0]
    /\ collected = <<>>
    /\ written = <<>>
    /\ counters = [n \in CounterNames |-> 0]

\* A startup that starts the workers before it finds out that a step failed.
MainStartup_Partial(outcomes) ==
    /\ mainPc = "startup"
    /\ \E outcome \in outcomes :
        /\ mainPc' = IF outcome = "ok" THEN "serving" ELSE "aborted"
        /\ dbOpen' = (outcome = "ok")
        /\ wg' = WgAdd(wg, Cardinality(Workers))
        /\ wpc' = [w \in Workers |-> "select"]
    /\ UNCHANGED <<cancelled, fileQueue, objectQueue, hand, pending, ticks,
                   collected, written, counters>>
    /\ UNCHANGED nonPipelineVars

\* runIndexer up to "All workers started": read the configuration, connect
\* (defer database.Close()), migrate, build queues and registry, then per
\* worker wg.Add(1) and the go statement. logger.Fatalf ends the process.
MainStartup(outcomes) ==
    /\ mainPc = "startup"
    /\ \E outcome \in outcomes :
        IF outcome = "ok"
        THEN /\ mainPc' = "serving"
             /\ dbOpen' = TRUE
             /\ wg' = WgAdd(wg, Cardinality(Workers))
             /\ wpc' = [w \in Workers |-> "select"]
        ELSE /\ mainPc' = "aborted"
             /\ UNCHANGED <<dbOpen, wg, wpc>>
    /\ UNCHANGED <<cancelled, fileQueue, objectQueue, hand, pending, ticks,
                   collected, written, counters>>
    /\ UNCHANGED nonPipelineVars

\* SIGINT / SIGTERM arrives on sigChan: cancel(), server.Shutdown, and on to
\* wg.Wait().
MainShutdown ==
    /\ mainPc = "serving"
    /\ cancelled' = TRUE
    /\ mainPc' = "waiting"
    /\ UNCHANGED <<wg, dbOpen, fileQueue, objectQueue, wpc, hand, pending,
                   ticks, collected, written, counters>>
    /\ UNCHANGED nonPipelineVars

\* wg.Wait() returns; runIndexer logs and returns, which runs the deferred
\* database.Close().
MainWaitReturns ==
    /\ mainPc = "waiting"
    /\ WgWaitReturns(wg)
    /\ mainPc' = "exited"
    /\ dbOpen' = FALSE
    /\ UNCHANGED <<cancelled, wg, fileQueue, objectQueue, wpc, hand, pending,
                   ticks, collected, written, counters>>
    /\ UNCHANGED nonPipelineVars

\* A worker returns: its deferred wg.Done() runs.
WorkerReturns(w) ==
    /\ wpc' = [wpc EXCEPT ![w] = "returned"]
    /\ wg' = WgDone(wg)

\* collectorWorker, select: case <-ctx.Done(): return.
CollectorExit(c) ==
    /\ wpc[c] = "select"
    /\ cancelled
    /\ WorkerReturns(c)
    /\ UNCHANGED <<mainPc, cancelled, dbOpen, fileQueue, objectQueue, hand,
                   pending, ticks, collected, written, counters>>
    /\ UNCHANGED nonPipelineVars

\* A collector worker that calls Collect again within the tick when the first
\* call failed.
CollectorTick_Retry(c, outcomes, limit) ==
    /\ wpc[c] = "select"
    /\ ticks[c] < limit
    /\ ticks' = [ticks EXCEPT ![c] = ticks[c] + 1]
    /\ \E o \in outcomes :
        IF o.err # "nil"
        THEN /\ counters' = Inc(counters, "collect_failed")
             /\ \E again \in outcomes :
                  /\ pending' = [pending EXCEPT ![c] = again.files]
                  /\ wpc' = [wpc EXCEPT ![c] = IF again.files = <<>> THEN "select"
                                               ELSE "enqueue"]
        ELSE /\ pending' = [pending EXCEPT ![c] = o.files]
             /\ wpc' = [wpc EXCEPT ![c] = IF o.files = <<>> THEN "select" ELSE "enqueue"]
             /\ UNCHANGED counters
    /\ UNCHANGED <<mainPc, cancelled, wg, dbOpen, fileQueue, objectQueue, hand,
                   collected, written>>
    /\ UNCHANGED nonPipelineVars

\* collectorWorker, select: case <-ticker.C (select takes any ready case, so
\* a tick can win over a closed ctx.Done()): coll.Collect(ctx); on an error
\* count it and continue, otherwise range over the files. `outcomes` is what
\* Collect can return on this tick, `limit` the number of ticks of the run.
CollectorTick(c, outcomes, limit) ==
    /\ wpc[c] = "select"
    /\ ticks[c] < limit
    /\ ticks' = [ticks EXCEPT ![c] = ticks[c] + 1]
    /\ \E o \in outcomes :
        IF o.err # "nil"
        THEN /\ counters' = Inc(counters, "collect_failed")
             /\ UNCHANGED <<pending, wpc>>
        ELSE /\ pending' = [pending EXCEPT ![c] = o.files]
             /\ wpc' = [wpc EXCEPT ![c] = IF o.files = <<>> THEN "select" ELSE "enqueue"]
             /\ UNCHANGED counters
    /\ UNCHANGED <<mainPc, cancelled, wg, dbOpen, fileQueue, objectQueue, hand,
                   collected, written>>
    /\ UNCHANGED nonPipelineVars

\* A collector worker in front of a file queue of capacity one, whose Enqueue
\* waits for room.
CollectorEnqueue_Bounded(c) ==
    /\ wpc[c] = "enqueue"
    /\ Len(fileQueue.items) < 1
    /\ \E o \in Enqueue(fileQueue, cancelled, Head(pending[c])) :
        /\ fileQueue' = o.q
        /\ counters' = Inc(counters, IF o.err = "nil" THEN "files_collected"
                                     ELSE "enqueue_failed")
        /\ pending' = [pending EXCEPT ![c] = Tail(pending[c])]
        /\ collected' = IF o.err = "nil" THEN Append(collected, Head(pending[c]))
                        ELSE collected
        /\ wpc' = Wake([wpc EXCEPT ![c] = IF Tail(pending[c]) = <<>>
                                          THEN "select" ELSE "enqueue"],
                       o.woken)
    /\ UNCHANGED <<mainPc, cancelled, wg, dbOpen, objectQueue, hand, ticks,
                   written>>
    /\ UNCHANGED nonPipelineVars

\* collectorWorker, `for _, file := range files`: fileQueue.Enqueue(ctx, file).
CollectorEnqueue(c) ==
    /\ wpc[c] = "enqueue"
    /\ \E o \in Enqueue(fileQueue, cancelled, Head(pending[c])) :
        /\ fileQueue' = o.q
        /\ counters' = Inc(counters, IF o.err = "nil" THEN "files_collected"
                                     ELSE "enqueue_failed")
        /\ pending' = [pending EXCEPT ![c] = Tail(pending[c])]
        /\ collected' = IF o.err = "nil" THEN Append(collected, Head(pending[c]))
                        ELSE collected
        /\ wpc' = Wake([wpc EXCEPT ![c] = IF Tail(pending[c]) = <<>>
                                          THEN "select" ELSE "enqueue"],
                       o.woken)
    /\ UNCHANGED <<mainPc, cancelled, wg, dbOpen, objectQueue, hand, ticks,
                   written>>
    /\ UNCHANGED nonPipelineVars

\* parserWorker / writerWorker, select: case <-ctx.Done(): return.
ConsumerExit(w) ==
    /\ wpc[w] = "select"
    /\ cancelled
    /\ WorkerReturns(w)
    /\ UNCHANGED <<mainPc, cancelled, dbOpen, fileQueue, objectQueue, hand,
                   pending, ticks, collected, written, counters>>
    /\ UNCHANGED nonPipelineVars

\* A worker whose select takes the default case also when ctx.Done() is
\* closed.
ConsumerBegin_IgnoreDone(w) ==
    /\ wpc[w] = "select"
    /\ wpc' = [wpc EXCEPT ![w] = "dequeue"]
    /\ UNCHANGED <<mainPc, cancelled, wg, dbOpen, fileQueue, objectQueue, hand,
                   pending, ticks, collected, written, counters>>
    /\ UNCHANGED nonPipelineVars

\* parserWorker / writerWorker, select: default: the worker calls Dequeue.
ConsumerBegin(w) ==
    /\ wpc[w] = "select"
    /\ ~cancelled
    /\ wpc' = [wpc EXCEPT ![w] = "dequeue"]
    /\ UNCHANGED <<mainPc, cancelled, wg, dbOpen, fileQueue, objectQueue, hand,
                   pending, ticks, collected, written, counters>>
    /\ UNCHANGED nonPipelineVars

\* After Dequeue(ctx) returned r to worker w (next: the pc on an item):
\* an error with ctx.Err() != nil makes the worker return, an error
\* otherwise is counted and the loop continues, an item is taken in hand.
AfterDequeue(w, r, next) ==
    /\ hand' = IF r.kind = "item" THEN [hand EXCEPT ![w] = <<r.item>>] ELSE hand
    /\ IF r.kind = "cancelled" /\ cancelled
       THEN WorkerReturns(w) /\ UNCHANGED counters
       ELSE /\ wpc' = [wpc EXCEPT ![w] = CASE r.kind = "park" -> "parked"
                                           [] r.kind = "item" -> next
                                           [] OTHER -> "select"]
            /\ counters' = IF r.kind = "cancelled"
                           THEN Inc(counters, "dequeue_failed") ELSE counters
            /\ UNCHANGED wg

\* parserWorker: fileQueue.Dequeue(ctx), from its Lock or from the return of
\* cond.Wait.
ParserDequeue(p) ==
    /\ wpc[p] \in {"dequeue", "woken"}
    /\ LET r == Dequeue(fileQueue, p, cancelled) IN
        /\ fileQueue' = r.q
        /\ AfterDequeue(p, r, "parse")
    /\ UNCHANGED <<mainPc, cancelled, dbOpen, objectQueue, pending, ticks,
                   collected, written>>
    /\ UNCHANGED nonPipelineVars

\* A parser worker that puts a file it could not parse back on the file queue.
ParserParses_Requeue(p) ==
    /\ wpc[p] = "parse"
    /\ LET r == RegistryParse(parserRegistry, hand[p][1]) IN
        IF r.err # "nil"
        THEN /\ counters' = Inc(counters, "parse_failed")
             /\ hand' = [hand EXCEPT ![p] = <<>>]
             /\ \E o \in Enqueue(fileQueue, cancelled, hand[p][1]) :
                  /\ fileQueue' = o.q
                  /\ wpc' = Wake([wpc EXCEPT ![p] = "select"], o.woken)
             /\ UNCHANGED pending
        ELSE /\ pending' = [pending EXCEPT ![p] = r.objects]
             /\ hand' = IF r.objects = <<>> THEN [hand EXCEPT ![p] = <<>>] ELSE hand
             /\ wpc' = [wpc EXCEPT ![p] = IF r.objects = <<>> THEN "select"
                                          ELSE "enqueue"]
             /\ UNCHANGED <<counters, fileQueue>>
    /\ UNCHANGED <<mainPc, cancelled, wg, dbOpen, objectQueue, ticks,
                   collected, written>>
    /\ UNCHANGED nonPipelineVars

\* parserWorker: parserRegistry.Parse(ctx, file); on an error count it and
\* continue (the file is dropped), otherwise range over the objects.
ParserParses(p) ==
    /\ wpc[p] = "parse"
    /\ LET r == RegistryParse(parserRegistry, hand[p][1]) IN
        IF r.err # "nil"
        THEN /\ counters' = Inc(counters, "parse_failed")
             /\ hand' = [hand EXCEPT ![p] = <<>>]
             /\ wpc' = [wpc EXCEPT ![p] = "select"]
             /\ UNCHANGED pending
        ELSE /\ pending' = [pending EXCEPT ![p] = r.objects]
             /\ hand' = IF r.objects = <<>> THEN [hand EXCEPT ![p] = <<>>] ELSE hand
             /\ wpc' = [wpc EXCEPT ![p] = IF r.objects = <<>> THEN "select"
                                          ELSE "enqueue"]
             /\ UNCHANGED counters
    /\ UNCHANGED <<mainPc, cancelled, wg, dbOpen, fileQueue, objectQueue, ticks,
                   collected, written>>
    /\ UNCHANGED nonPipelineVars

\* A parser worker that forwards the objects of a file from the last to the
\* first.
ParserEnqueue_LastFirst(p) ==
    /\ wpc[p] = "enqueue"
    /\ LET n == Len(pending[p])
           rest == SubSeq(pending[p], 1, n - 1)
       IN \E o \in Enqueue(objectQueue, cancelled, pending[p][n]) :
            /\ objectQueue' = o.q
            /\ counters' = Inc(counters, IF o.err = "nil" THEN "objects_parsed"
                                         ELSE "enqueue_failed")
            /\ pending' = [pending EXCEPT ![p] = rest]
            /\ hand' = IF rest = <<>> THEN [hand EXCEPT ![p] = <<>>] ELSE hand
            /\ wpc' = Wake([wpc EXCEPT ![p] = IF rest = <<>> THEN "select"
                                              ELSE "enqueue"],
                           o.woken)
    /\ UNCHANGED <<mainPc, cancelled, wg, dbOpen, fileQueue, ticks, collected, written>>
    /\ UNCHANGED nonPipelineVars

\* parserWorker, `for _, obj := range objects`: objectQueue.Enqueue(ctx, obj).
ParserEnqueue(p) ==
    /\ wpc[p] = "enqueue"
    /\ \E o \in Enqueue(objectQueue, cancelled, Head(pending[p])) :
        LET last == Tail(pending[p]) = <<>> IN
        /\ objectQueue' = o.q
        /\ counters' = Inc(counters, IF o.err = "nil" THEN "objects_parsed"
                                     ELSE "enqueue_failed")
        /\ pending' = [pending EXCEPT ![p] = Tail(pending[p])]
        /\ hand' = IF last THEN [hand EXCEPT ![p] = <<>>] ELSE hand
        /\ wpc' = Wake([wpc EXCEPT ![p] = IF last THEN "select" ELSE "enqueue"],
                       o.woken)
    /\ UNCHANGED <<mainPc, cancelled, wg, dbOpen, fileQueue, ticks, collected, written>>
    /\ UNCHANGED nonPipelineVars

\* writerWorker: objectQueue.Dequeue(ctx), from its Lock or from the return
\* of cond.Wait.
WriterDequeue(w) ==
    /\ wpc[w] \in {"dequeue", "woken"}
    /\ LET r == Dequeue(objectQueue, w, cancelled) IN
        /\ objectQueue' = r.q
        /\ AfterDequeue(w, r, "write")
    /\ UNCHANGED <<mainPc, cancelled, dbOpen, fileQueue, pending, ticks,
                   collected, written>>
    /\ UNCHANGED nonPipelineVars

\* DatabaseWriter.WriteObject: the upsert; a closed handle fails every
\* statement, an open one answers as the store does.
WriteObject(open, answer) == IF open THEN answer ELSE "sql: database is closed"

\* A writer worker that gives up at the first failed write.
WriterWrites_FailFast(w, answers) ==
    /\ wpc[w] = "write"
    /\ \E answer \in answers :
        LET err == WriteObject(dbOpen, answer) IN
        /\ written' = IF err = "nil" THEN Append(written, hand[w][1]) ELSE written
        /\ counters' = Inc(counters, IF err = "nil" THEN "objects_written"
                                     ELSE "write_failed")
        /\ IF err = "nil"
           THEN wpc' = [wpc EXCEPT ![w] = "select"] /\ UNCHANGED wg
           ELSE wpc' = [wpc EXCEPT ![w] = "returned"] /\ wg' = WgDone(wg)
    /\ hand' = [hand EXCEPT ![w] = <<>>]
    /\ UNCHANGED <<mainPc, cancelled, dbOpen, fileQueue, objectQueue,
                   pending, ticks, collected>>
    /\ UNCHANGED nonPipelineVars

\* A writer worker that puts an object it could not write back on the object
\* queue, to try it again later.
WriterWrites_Retry(w, answers) ==
    /\ wpc[w] = "write"
    /\ \E answer \in answers :
        LET err == WriteObject(dbOpen, answer) IN
        /\ written' = IF err = "nil" THEN Append(written, hand[w][1]) ELSE written
        /\ counters' = Inc(counters, IF err = "nil" THEN "objects_written"
                                     ELSE "write_failed")
        /\ IF err = "nil"
           THEN /\ wpc' = [wpc EXCEPT ![w] = "select"]
                /\ UNCHANGED objectQueue
           ELSE \E o \in Enqueue(objectQueue, cancelled, hand[w][1]) :
                /\ objectQueue' = o.q
                /\ wpc' = Wake([wpc EXCEPT ![w] = "select"], o.woken)
    /\ hand' = [hand EXCEPT ![w] = <<>>]
    /\ UNCHANGED <<mainPc, cancelled, wg, dbOpen, fileQueue,
                   pending, ticks, collected>>
    /\ UNCHANGED nonPipelineVars

\* writerWorker: dbWriter.WriteObject(ctx, obj); an error is counted, a
\* success is counted; either way the loop continues.
WriterWrites(w, answers) ==
    /\ wpc[w] = "write"
    /\ \E answer \in answers :
        LET err == WriteObject(dbOpen, answer) IN
        /\ written' = IF err = "nil" THEN Append(written, hand[w][1]) ELSE written
        /\ counters' = Inc(counters, IF err = "nil" THEN "objects_written"
                                     ELSE "write_failed")
    /\ hand' = [hand EXCEPT ![w] = <<>>]
    /\ wpc' = [wpc EXCEPT ![w] = "select"]
    /\ UNCHANGED <<mainPc, cancelled, wg, dbOpen, fileQueue, objectQueue,
                   pending, ticks, collected>>
    /\ UNCHANGED nonPipelineVars

\* queueMetricsWorker, select: case <-ctx.Done(): return.
MetricsExit ==
    /\ wpc[MetricsWorker] = "select"
    /\ cancelled
    /\ WorkerReturns(MetricsWorker)
    /\ UNCHANGED <<mainPc, cancelled, dbOpen, fileQueue, objectQueue, hand,
                   pending, ticks, collected, written, counters>>
    /\ UNCHANGED nonPipelineVars

\* queueMetricsWorker, select: case <-ticker.C: fileQueue.Size() and
\* objectQueue.Size() are read and handed to metrics.QueueSize, a gauge that
\* nothing in the program reads back; the queues are left as they are.
MetricsTick ==
    /\ wpc[MetricsWorker] = "select"
    /\ ticks[MetricsWorker] < MaxMetricsTicks
    /\ Size(fileQueue) >= 0 /\ Size(objectQueue) >= 0
    /\ ticks' = [ticks EXCEPT ![MetricsWorker] = ticks[MetricsWorker] + 1]
    /\ UNCHANGED <<mainPc, cancelled, wg, dbOpen, fileQueue, objectQueue, wpc,
                   hand, pending, collected, written, counters>>
    /\ UNCHANGED nonPipelineVars

\* The steps of the worker goroutines.
WorkerNext ==
    \/ \E c \in CollectorWorkers : CollectorExit(c)
    \/ \E c \in CollectorWorkers :
         CollectorTick(c, CollectOutcomes(CollectorSources[c[2]], ticks[c] + 1), MaxTicks)
    \/ \E c \in CollectorWorkers : CollectorEnqueue(c)
    \/ \E w \in ParserWorkers \cup WriterWorkers : ConsumerExit(w)
    \/ \E w \in ParserWorkers \cup WriterWorkers : ConsumerBegin(w)
    \/ \E p \in ParserWorkers : ParserDequeue(p)
    \/ \E p \in ParserWorkers : ParserParses(p)
    \/ \E p \in ParserWorkers : ParserEnqueue(p)
    \/ \E w \in WriterWorkers : WriterDequeue(w)
    \/ \E w \in WriterWorkers : WriterWrites(w, StoreAnswers)
    \/ MetricsExit
    \/ MetricsTick

\* ------------------------------------------------------ the specifications
Init ==
    QueueInit /\ RegistryInit /\ ParserInit /\ StoreInit /\ ProviderInit /\ PipelineInit

NextQueue ==
    \/ QEnqueue
    \/ QClose
    \/ QSize
    \/ \E c \in Consumers : QCall(c)
    \/ \E c \in Consumers : QDequeue(c)
    \/ \E c \in Consumers : QCancel(c)

SpecQueue == Init /\ [][NextQueue]_vars

\* The queue when every goroutine that holds or is about to take the mutex in
\* Dequeue does get it (the Go scheduler is preemptive and sync.Mutex hands
\* the lock to a starving waiter).
SpecQueueLive ==
    Init /\ [][NextQueue]_vars /\ \A c \in Consumers : WF_vars(QDequeue(c))

NextRegistry == RRegister \/ RParse

SpecRegistry == Init /\ [][NextRegistry]_vars

InitParsers ==
    /\ QueueInit /\ RegistryInit /\ ParserHarnessInit /\ StoreInit
    /\ ProviderInit /\ PipelineInit

NextParsers == PParse

SpecParsers == InitParsers /\ [][NextParsers]_vars

InitProvider ==
    /\ QueueInit /\ RegistryInit /\ ParserInit /\ StoreInit
    /\ ProviderHarnessInit /\ PipelineInit

NextProvider == PExtract

SpecProvider == InitProvider /\ [][NextProvider]_vars

NextStore == SWriteFile \/ SWriteObject \/ SWriteBatch

SpecStore == Init /\ [][NextStore]_vars

Next ==
    \/ MainStartup(StartupOutcomes)
    \/ MainShutdown
    \/ MainWaitReturns
    \/ \E c \in CollectorWorkers : CollectorExit(c)
    \/ \E c \in CollectorWorkers :
         CollectorTick(c, CollectOutcomes(CollectorSources[c[2]], ticks[c] + 1), MaxTicks)
    \/ \E c \in CollectorWorkers : CollectorEnqueue(c)
    \/ \E w \in ParserWorkers \cup WriterWorkers : ConsumerExit(w)
    \/ \E w \in ParserWorkers \cup WriterWorkers : ConsumerBegin(w)
    \/ \E p \in ParserWorkers : ParserDequeue(p)
    \/ \E p \in ParserWorkers : ParserParses(p)
    \/ \E p \in ParserWorkers : ParserEnqueue(p)
    \/ \E w \in WriterWorkers : WriterDequeue(w)
    \/ \E w \in WriterWorkers : WriterWrites(w, StoreAnswers)
    \/ MetricsExit
    \/ MetricsTick

Spec == Init /\ [][Next]_vars

\* runIndexer when the goroutines of the timer-driven workers are scheduled
\* fairly: a collector worker that is enqueuing files or stands at its select
\* with ctx.Done() closed does take its next step, and so does the
\* queue-metrics worker. Nothing is assumed of the tickers or of the other
\* workers.
SpecTimers ==
    /\ Init /\ [][Next]_vars
    /\ \A c \in CollectorWorkers : WF_vars(CollectorExit(c) \/ CollectorEnqueue(c))
    /\ WF_vars(MetricsExit)

\* runIndexer when startup succeeds, no signal arrives, every Collect succeeds
\* and the store accepts every write. Every goroutine that can run does
\* eventually run (the Go scheduler is preemptive) and the tickers fire.
NextDelivery ==
    \/ MainStartup({"ok"})
    \/ \E c \in CollectorWorkers :
         CollectorTick(c, CollectSuccesses(CollectorSources[c[2]], ticks[c] + 1),
                       MaxDeliveryTicks)
    \/ \E c \in CollectorWorkers : CollectorEnqueue(c)
    \/ \E w \in ParserWorkers \cup WriterWorkers : ConsumerBegin(w)
    \/ \E p \in ParserWorkers : ParserDequeue(p)
    \/ \E p \in ParserWorkers : ParserParses(p)
    \/ \E p \in ParserWorkers : ParserEnqueue(p)
    \/ \E w \in WriterWorkers : WriterDequeue(w)
    \/ \E w \in WriterWorkers : WriterWrites(w, {"nil"})
    \/ MetricsTick

SpecDelivery == Init /\ [][NextDelivery]_vars /\ WF_vars(NextDelivery)

\* runIndexer with collectors that are any implementation of the Collector
\* interface.
NextIntake ==
    \/ MainStartup(StartupOutcomes)
    \/ MainShutdown
    \/ MainWaitReturns
    \/ \E c \in CollectorWorkers : CollectorExit(c)
    \/ \E c \in CollectorWorkers :
         CollectorTick(c, AnyCollectOutcomes(CollectorSources[c[2]], ticks[c] + 1),
                       MaxTicks)
    \/ \E c \in CollectorWorkers : CollectorEnqueue(c)
    \/ \E w \in ParserWorkers \cup WriterWorkers : ConsumerExit(w)
    \/ \E w \in ParserWorkers \cup WriterWorkers : ConsumerBegin(w)
    \/ \E p \in ParserWorkers : ParserDequeue(p)
    \/ \E p \in ParserWorkers : ParserParses(p)
    \/ \E p \in ParserWorkers : ParserEnqueue(p)
    \/ \E w \in WriterWorkers : WriterDequeue(w)
    \/ \E w \in WriterWorkers : WriterWrites(w, StoreAnswers)
    \/ MetricsExit
    \/ MetricsTick

SpecIntake == Init /\ [][NextIntake]_vars

\* runIndexer with collectors whose source may be unreachable or hold a
\* damaged file, and a store that may refuse a write.
NextFaults ==
    \/ MainStartup(StartupOutcomes)
    \/ MainShutdown
    \/ MainWaitReturns
    \/ \E c \in CollectorWorkers : CollectorExit(c)
    \/ \E c \in CollectorWorkers :
         CollectorTick(c, FaultyCollectOutcomes(CollectorSources[c[2]], ticks[c] + 1),
                       MaxTicks)
    \/ \E c \in CollectorWorkers : CollectorEnqueue(c)
    \/ \E w \in ParserWorkers \cup WriterWorkers : ConsumerExit(w)
    \/ \E w \in ParserWorkers \cup WriterWorkers : ConsumerBegin(w)
    \/ \E p \in ParserWorkers : ParserDequeue(p)
    \/ \E p \in ParserWorkers : ParserParses(p)
    \/ \E p \in ParserWorkers : ParserEnqueue(p)
    \/ \E w \in WriterWorkers : WriterDequeue(w)
    \/ \E w \in WriterWorkers : WriterWrites(w, StoreAnswers)
    \/ MetricsExit
    \/ MetricsTick

SpecFaults == Init /\ [][NextFaults]_vars

\* runIndexer between startup and the signal, over several ticks: the source
\* may be unreachable or hold a damaged file on any of them, and the store
\* may refuse any write.
NextSteady ==
    \/ MainStartup({"ok"})
    \/ \E c \in CollectorWorkers :
         CollectorTick(c, FaultyCollectOutcomes(CollectorSources[c[2]], ticks[c] + 1),
                       MaxDeliveryTicks)
    \/ \E c \in CollectorWorkers : CollectorEnqueue(c)
    \/ \E w \in ParserWorkers \cup WriterWorkers : ConsumerBegin(w)
    \/ \E p \in ParserWorkers : ParserDequeue(p)
    \/ \E p \in ParserWorkers : ParserParses(p)
    \/ \E p \in ParserWorkers : ParserEnqueue(p)
    \/ \E w \in WriterWorkers : WriterDequeue(w)
    \/ \E w \in WriterWorkers : WriterWrites(w, StoreAnswers)
    \/ MetricsTick

SpecSteady == Init /\ [][NextSteady]_vars

\* runIndexer between startup and the signal when the store refuses every
\* write; every goroutine that can run does eventually run and the tickers
\* fire.
NextStoreDown ==
    \/ MainStartup({"ok"})
    \/ \E c \in CollectorWorkers :
         CollectorTick(c, CollectSuccesses(CollectorSources[c[2]], ticks[c] + 1),
                       MaxTicks)
    \/ \E c \in CollectorWorkers : CollectorEnqueue(c)
    \/ \E w \in ParserWorkers \cup WriterWorkers : ConsumerBegin(w)
    \/ \E p \in ParserWorkers : ParserDequeue(p)
    \/ \E p \in ParserWorkers : ParserParses(p)
    \/ \E p \in ParserWorkers : ParserEnqueue(p)
    \/ \E w \in WriterWorkers : WriterDequeue(w)
    \/ \E w \in WriterWorkers : WriterWrites(w, {"store error"})
    \/ MetricsTick

SpecStoreDown == Init /\ [][NextStoreDown]_vars /\ WF_vars(NextStoreDown)

\* runIndexer between startup and the signal with a source of larger files
\* and a store that accepts every write; every goroutine that can run does
\* eventually run and the tickers fire.
NextForward ==
    \/ MainStartup({"ok"})
    \/ \E c \in CollectorWorkers :
         CollectorTick(c, RichCollectOutcomes(CollectorSources[c[2]], ticks[c] + 1),
                       MaxTicks)
    \/ \E c \in CollectorWorkers : CollectorEnqueue(c)
    \/ \E w \in ParserWorkers \cup WriterWorkers : ConsumerBegin(w)
    \/ \E p \in ParserWorkers : ParserDequeue(p)
    \/ \E p \in ParserWorkers : ParserParses(p)
    \/ \E p \in ParserWorkers : ParserEnqueue(p)
    \/ \E w \in WriterWorkers : WriterDequeue(w)
    \/ \E w \in WriterWorkers : WriterWrites(w, {"nil"})
    \/ MetricsTick

SpecForward == Init /\ [][NextForward]_vars /\ WF_vars(NextForward)

\* parserWorker, parserRegistry.Parse(ctx, file), on a schedule where the
\* parse of the first collected file takes long: it ends only when an object
\* of a file collected later has been stored.
SlowFirstParse(p) ==
    /\ wpc[p] = "parse"
    /\ hand[p][1] = collected[1] =>
         \E j \in DOMAIN collected, m \in DOMAIN written :
            j > 1 /\ written[m].FileID = collected[j].ID
    /\ ParserParses(p)

\* The runs of runIndexer without shutdown and without failures in which the
\* parse of the first collected file is slow; every goroutine that can run
\* does eventually run.
NextReorder ==
    \/ MainStartup({"ok"})
    \/ \E c \in CollectorWorkers :
         CollectorTick(c, CollectSuccesses(CollectorSources[c[2]], ticks[c] + 1),
                       MaxTicks)
    \/ \E c \in CollectorWorkers : CollectorEnqueue(c)
    \/ \E w \in ParserWorkers \cup WriterWorkers : ConsumerBegin(w)
    \/ \E p \in ParserWorkers : ParserDequeue(p)
    \/ \E p \in ParserWorkers : SlowFirstParse(p)
    \/ \E p \in ParserWorkers : ParserEnqueue(p)
    \/ \E w \in WriterWorkers : WriterDequeue(w)
    \/ \E w \in WriterWorkers : WriterWrites(w, {"nil"})
    \/ MetricsTick

SpecReorder == Init /\ [][NextReorder]_vars /\ WF_vars(NextReorder)

\* ====================================================== claims on the queue
Count(s, x) == Cardinality({i \in DOMAIN s : s[i] = x})

\* How often item x occurs in what the consumers' Dequeue calls returned.
TimesReceived(x) ==
    Cardinality({ci \in UNION {{<<c, i>> : i \in DOMAIN received[c]} : c \in Consumers} :
                    received[ci[1]][ci[2]] = x})

\* Consumer c's critical section runs in this step.
DequeueStepOf(c) ==
    callPc[c] \in {"calling", "woken"} /\ callPc'[c] \in {"idle", "parked"}

\* C2: a Dequeue call parked on an empty queue returns a cancellation failure
\* once its caller's ctx is cancelled, even if nobody calls Enqueue or Close
\* again. Stated as the condition a finite run can refute: whenever a call is
\* parked on an empty queue with its ctx cancelled, the call has a step of its
\* own to take (without one, and without Enqueue or Close, it never returns).
C2_CancelledWaiterProceeds ==
    \A c \in Consumers :
        (callPc[c] = "parked" /\ callCtx[c] /\ queue.items = <<>>)
            => ENABLED ConsumerStep(c)

\* C3: a Dequeue call never returns while the queue is empty and the caller's
\* ctx is not cancelled; a consumer that holds the mutex at the loop head (on
\* entry or after a wake-up) and finds the queue empty with its ctx not
\* cancelled parks (again) and receives nothing.
C3_DequeueBlocksWhileEmpty ==
    [][\A c \in Consumers :
         DequeueStepOf(c) =>
            /\ (callPc'[c] = "idle") => (queue.items # <<>> \/ callCtx[c])
            /\ (queue.items = <<>> /\ ~callCtx[c]) =>
                 /\ callPc'[c] = "parked"
                 /\ c \in queue'.waiters
                 /\ received'[c] = received[c]]_vars

\* A consumer woken by an Enqueue's Signal found the queue empty (another
\* consumer took the item) and parked again.
C3_Witness ==
    /\ ~closedEver
    /\ lastOp.op = "Dequeue" /\ lastOp.resumed /\ lastOp.ret = "park"
    /\ callPc[lastOp.who] = "parked"
    /\ \E d \in Consumers \ {lastOp.who} : received[d] # <<>>

\* C4: N Enqueue calls on the initially empty queue followed by N Dequeue
\* calls of a single consumer return the items in the order they were
\* enqueued.
C4_Fifo ==
    \A c \in Consumers :
        (/\ \A d \in Consumers \ {c} : received[d] = <<>>
         /\ firstTake = Len(enqueued)
         /\ Len(received[c]) = Len(enqueued))
            => received[c] = enqueued

\* One consumer received all MaxEnqueues items, the first of them after the
\* last Enqueue.
C4_Witness ==
    \E c \in Consumers :
        /\ Len(received[c]) = MaxEnqueues
        /\ firstTake = MaxEnqueues
        /\ MaxEnqueues >= 2

\* C5: with concurrent producers and consumers every enqueued item is either
\* still queued (once) or was returned by exactly one successful Dequeue call
\* (once); nothing that was not enqueued is queued or returned.
C5_ExactlyOnce ==
    \A x \in Items :
        Count(queue.items, x) + TimesReceived(x)
            = IF x \in Range(enqueued) THEN 1 ELSE 0

\* Everything was enqueued and returned, and every consumer got some of it.
C5_Witness ==
    /\ Len(enqueued) = MaxEnqueues
    /\ queue.items = <<>>
    /\ \A c \in Consumers : received[c] # <<>>

\* C8: Enqueue is possible in every reachable state of the queue, and every
\* Enqueue (whatever the length, after Close or not, with a cancelled ctx or
\* not) returns nil and appends its item at the tail.
C8_EnqueueNeverFails ==
    /\ [](Len(enqueued) < MaxEnqueues => ENABLED QEnqueue)
    /\ [][lastOp'.op = "Enqueue" =>
            /\ lastOp'.ret = "nil"
            /\ queue'.items = Append(queue.items, lastOp'.item)
            /\ Len(queue'.items) = Len(queue.items) + 1]_vars

\* An Enqueue with a cancelled ctx, after Close, onto a queue that already
\* held MaxEnqueues - 1 items.
C8_Witness ==
    /\ lastOp.op = "Enqueue" /\ lastOp.ctx /\ lastOp.ret = "nil"
    /\ closedEver
    /\ Len(queue.items) = MaxEnqueues

\* C9: Close wakes every consumer parked in Dequeue and changes nothing else
\* (the items stay queued, no other caller is touched); after Close, Enqueue
\* still appends and Dequeue still returns the head, fails with a cancelled
\* ctx on an empty queue, or parks.
C9_CloseOnlyWakes ==
    /\ [][lastOp'.op = "Close" =>
            /\ queue'.items = queue.items
            /\ queue'.waiters = {}
            /\ \A c \in Consumers :
                 callPc'[c] = IF callPc[c] = "parked" THEN "woken" ELSE callPc[c]
            /\ lastOp'.ret = "nil"
            /\ UNCHANGED <<callCtx, received, enqueued>>]_vars
    /\ [][(closedEver /\ lastOp'.op = "Enqueue") =>
            /\ lastOp'.ret = "nil"
            /\ queue'.items = Append(queue.items, lastOp'.item)]_vars
    /\ [][(closedEver /\ lastOp'.op = "Dequeue") =>
            /\ lastOp'.ret = IF queue.items # <<>> THEN "item"
                             ELSE IF lastOp'.ctx THEN "cancelled" ELSE "park"
            /\ (queue.items # <<>>) =>
                 /\ lastOp'.item = Head(queue.items)
                 /\ queue'.items = Tail(queue.items)]_vars

\* Close has just woken every consumer while items were queued.
C9_Witness ==
    /\ lastOp.op = "Close"
    /\ \A c \in Consumers : callPc[c] = "woken"
    /\ queue.items # <<>>

\* =================================================== claims on the registry
\* The parsers registered before the dispatch that accept the file's type,
\* by their place in the order of registration.
Accepting(d) ==
    {i \in DOMAIN d.registered : d.file.FileType \in d.registered[i].accepts}

\* C10: whatever was registered in whatever order, Parse invokes exactly the
\* first-registered parser that accepts the file's content type and returns
\* that parser's result; no parser registered after it is invoked.
C10_DispatchPrecedence ==
    (dispatch.called /\ Accepting(dispatch) # {}) =>
        LET first == CHOOSE i \in Accepting(dispatch) :
                        \A j \in Accepting(dispatch) : i <= j
            own == ParserParse(dispatch.registered[first], dispatch.file)
        IN /\ Len(dispatch.parseCalls) = 1
           /\ dispatch.parsers[dispatch.parseCalls[1]] = dispatch.registered[first]
           /\ dispatch.objects = own.objects
           /\ dispatch.err = own.err

\* Two different parsers that both accept the file's type were registered,
\* and the file was dispatched.
C10_Witness ==
    /\ dispatch.called
    /\ \E i, j \in Accepting(dispatch) :
         i < j /\ dispatch.registered[i].name # dispatch.registered[j].name
    /\ dispatch.registered = registered

\* =================================================== claims on runIndexer
\* Every started worker has run its deferred wg.Done().
AllWorkersReturned == \A w \in Workers : wpc[w] = "returned"

\* C1: once cancel() has fired and the workers have no step left to take
\* (the in-flight work is done and nothing will change any more), every
\* started worker has returned, so that wg.Wait() can return; also when a
\* parser or writer was parked inside Dequeue when cancel() fired.
C1_ShutdownTerminates ==
    (cancelled /\ ~ENABLED WorkerNext) => AllWorkersReturned

\* C6: a writer's WriteObject call is only made while the store handle is
\* open, and the handle is closed only when wg.Wait() has returned and every
\* writer worker has returned.
C6_NoWriteAfterRelease ==
    /\ [][\A w \in WriterWorkers :
            (wpc[w] = "write" /\ wpc'[w] # "write") => (dbOpen /\ dbOpen')]_vars
    /\ [][(dbOpen /\ ~dbOpen') =>
            /\ mainPc = "waiting" /\ mainPc' = "exited"
            /\ wg = 0
            /\ \A w \in WriterWorkers : wpc[w] = "returned" /\ hand[w] = <<>>]_vars

\* Objects were written, then the workers returned and the handle was closed.
C6_Witness ==
    /\ mainPc = "exited"
    /\ ~dbOpen
    /\ written # <<>>

\* The files the collectors produce in a run of SpecDelivery.
DeliveryFiles ==
    UNION {Range(MockCollect(CollectorSources[c[2]], t)) :
             c \in CollectorWorkers, t \in 1..MaxDeliveryTicks}

\* File f was enqueued, taken off the file queue and handed to
\* parserRegistry.Parse.
Parsed(f) ==
    /\ f \in Range(collected)
    /\ f \notin Range(fileQueue.items)
    /\ \A p \in ParserWorkers :
         ~(wpc[p] = "parse" /\ hand[p] = <<f>>)

\* File f was parsed and every object its parser derives from it was stored.
Delivered(f) ==
    /\ Parsed(f)
    /\ \A o \in Range(RegistryParse(parserRegistry, f).objects) :
         o \in Range(written)

\* The fields of an object that generateObjectID is called with.
SameInputs(a, b) ==
    /\ a.FileID = b.FileID
    /\ a.Type = b.Type
    /\ a.ResourceType = b.ResourceType
    /\ a.Name = b.Name
    /\ a.Index = b.Index

Unmatched(f) ==
    \A i \in DOMAIN parserRegistry : ~CanParse(parserRegistry[i], f.FileType)

\* C11: when no registered parser accepts a file's type, ParserRegistry.Parse
\* returns no objects and no error, and the parser worker that dispatched the
\* file goes back to its select with nothing to enqueue: the object queue and
\* every counter are left as they were.
C11_UnmatchedIsSilent ==
    [][\A p \in ParserWorkers :
         (wpc[p] = "parse" /\ wpc'[p] # "parse" /\ Unmatched(hand[p][1])) =>
            /\ RegistryParse(parserRegistry, hand[p][1]).objects = <<>>
            /\ RegistryParse(parserRegistry, hand[p][1]).err = "nil"
            /\ wpc'[p] = "select"
            /\ pending'[p] = <<>>
            /\ hand'[p] = <<>>
            /\ objectQueue' = objectQueue
            /\ counters' = counters]_vars

\* A file of a type no parser accepts was collected and dispatched.
C11_Witness ==
    \E f \in Range(collected) : Unmatched(f) /\ Parsed(f)

\* ================================================= claims on the worker pools
\* File A was enqueued on the file queue before file B, and an object of B
\* was stored before any object of A, which was stored later.
Reordered ==
    \E i, j \in DOMAIN collected, m, n \in DOMAIN written :
        /\ i < j /\ m < n
        /\ written[m].FileID = collected[j].ID
        /\ written[n].FileID = collected[i].ID
        /\ \A k \in 1..m : written[k].FileID # collected[i].ID

ParsedObjects == UNION {Range(parseRuns[r].objects) : r \in DOMAIN parseRuns}

\* The inputs the ids are said to be derived from: owning file id, kind of
\* the object, name and instance index.
KindInputs(o) == <<o.FileID, o.Type, o.Name, o.Index>>

\* C13: the id of an object is a deterministic function of exactly (owning
\* file id, kind, name, instance index): every Parse of the same file gives
\* the same ids, objects with the same four inputs have the same id, and
\* objects with the same id have the same four inputs.
C13_IdsFollowKindInputs ==
    /\ \A r, s \in DOMAIN parseRuns :
         [k \in DOMAIN parseRuns[r].objects |-> parseRuns[r].objects[k].ID]
         = [k \in DOMAIN parseRuns[s].objects |-> parseRuns[s].objects[k].ID]
    /\ \A a, b \in ParsedObjects :
         (a.ID = b.ID) <=> (KindInputs(a) = KindInputs(b))

\* The number of instances of the resources before the k-th of rs.
RECURSIVE InstancesBefore(_, _)
InstancesBefore(rs, k) ==
    IF k <= 1 THEN 0
    ELSE InstancesBefore(rs, k - 1) + rs[k - 1].Instances

\* The file under test is a state snapshot that decodes.
IsSnapshot == parseFile.FileType = "tfstate" /\ parseFile.Content.decodes

\* C14: for a state snapshot that declares M resources with K instances in
\* total, StateParser.Parse returns exactly K objects and no error; the
\* objects are in document order (resource by resource, instance by
\* instance, none for a resource without instances), each of kind
\* "resource", with the address "<type>.<name>" of its resource and the id of
\* the parsed file as its FileID.
C14_SnapshotCardinality ==
    IsSnapshot =>
        \A r \in DOMAIN parseRuns :
            LET rs == parseFile.Content.resources
                objs == parseRuns[r].objects
            IN /\ parseRuns[r].err = "nil"
               /\ Len(objs) = InstancesBefore(rs, Len(rs) + 1)
               /\ \A k \in DOMAIN rs : \A i \in 1..rs[k].Instances :
                    LET o == objs[InstancesBefore(rs, k) + i]
                    IN /\ o.Type = "resource"
                       /\ o.Address = rs[k].Type \o "." \o rs[k].Name
                       /\ o.Name = rs[k].Name
                       /\ o.Index = i - 1
                       /\ o.FileID = parseFile.ID

\* A snapshot with a resource without instances followed by a resource with
\* several was parsed.
C14_Witness ==
    /\ IsSnapshot
    /\ parseRuns # <<>>
    /\ Len(parseFile.Content.resources) = MaxStateResources
    /\ parseFile.Content.resources[1].Instances = 0
    /\ parseFile.Content.resources[MaxStateResources].Instances >= 2
    /\ Len(parseRuns[1].objects) >= 2

\* The attributes of block b whose expression is well formed.
WellFormed(b) == {k \in DOMAIN b.Attrs : b.Attrs[k].expr = "literal"}

\* The file under test is a configuration of one block of the schema, with
\* valid text around its attribute values, that has two well-formed
\* attributes and one that is not.
OneBadAttribute ==
    /\ parseFile.FileType = "tf"
    /\ parseFile.Content.syntaxOk
    /\ Len(parseFile.Content.blocks) = 1
    /\ LET b == parseFile.Content.blocks[1]
       IN /\ b.Type \in DOMAIN BlockLabels
          /\ Len(b.Labels) = BlockLabels[b.Type]
          /\ ~b.Nested
          /\ Len(b.Attrs) = 3
          /\ Cardinality(WellFormed(b)) = 2

\* C15: a configuration block with one malformed attribute expression and
\* two well-formed attributes yields exactly one object, whose configuration
\* holds the two well-formed attributes and not the malformed one.
C15_ConfigLeniency ==
    OneBadAttribute =>
        \A r \in DOMAIN parseRuns :
            LET b == parseFile.Content.blocks[1]
            IN /\ parseRuns[r].err = "nil"
               /\ Len(parseRuns[r].objects) = 1
               /\ DOMAIN parseRuns[r].objects[1].Configuration
                  = {b.Attrs[k].name : k \in WellFormed(b)}

\* ==================================================== claims on the store
\* The file's row / the object's row as the last write of it leaves it is
\* in the tables db.
HoldsFile(db, file) ==
    \E row \in db.files :
        row.ID = file.ID /\ row.Content = file.Content /\ row.UpdatedAt = file.UpdatedAt

HoldsObject(db, obj) ==
    \E row \in db.objects :
        row.ID = obj.ID /\ row.Configuration = obj.Configuration

\* C16: WriteBatch is all-or-nothing: when it returns an error the tables
\* are what they were before the call, and when it returns nil every file
\* and every object of the batch is stored.
C16_BatchAllOrNothing ==
    \A k \in DOMAIN storeLog :
        LET call == storeLog[k] IN
        call.op = "WriteBatch" =>
            /\ call.err # "nil" => call.after = call.before
            /\ call.err = "nil" =>
                /\ \A i \in DOMAIN call.files : HoldsFile(call.after, call.files[i])
                /\ \A i \in DOMAIN call.objects : HoldsObject(call.after, call.objects[i])

\* C17: WriteFile and WriteObject are idempotent upserts keyed by id: a
\* write that repeats the write before it leaves the tables as that one
\* left them, and no table ever holds two rows with one id.
C17_IdempotentUpsert ==
    /\ \A k \in DOMAIN storeLog :
         (storeLog[k].op \in {"WriteFile", "WriteObject"} /\ storeLog[k].again)
            => storeLog[k].after = storeLog[k].before
    /\ \A a, b \in store.files : a.ID = b.ID => a = b
    /\ \A a, b \in store.objects : a.ID = b.ID => a = b

\* After its file was stored, the same object was written twice in a row
\* and both writes returned nil.
C17_Witness ==
    /\ storeLog # <<>>
    /\ storeLog[1].op = "WriteObject"
    /\ storeLog[1].again
    /\ store.objects # {}
    /\ storeCalls >= 3

\* ================================================ more claims on runIndexer
\* C18: when reading the configuration, connecting to the store or the
\* migration fails, the process ends before any worker is started: in an
\* execution with such a failure no worker is ever started, nothing is
\* collected, parsed or written, and the process stays ended.
C18_NoPartialStartup ==
    /\ [](mainPc = "aborted" =>
            /\ \A w \in Workers : wpc[w] = "unstarted"
            /\ wg = 0
            /\ collected = <<>> /\ written = <<>>
            /\ fileQueue = NewInMemoryQueue /\ objectQueue = NewInMemoryQueue
            /\ \A w \in CollectorWorkers \cup {MetricsWorker} : ticks[w] = 0)
    /\ [][mainPc = "aborted" => mainPc' = "aborted"]_vars
    /\ [][(\E w \in Workers : wpc[w] = "unstarted" /\ wpc'[w] # "unstarted")
            => (mainPc = "startup" /\ mainPc' = "serving")]_vars

\* A startup step failed and the process ended.
C18_Witness ==
    /\ mainPc = "aborted"
    /\ \A w \in Workers : wpc[w] = "unstarted"

\* C19: once cancel() has fired no collector worker begins another Collect
\* call, so no file of a tick taken after the cancellation is enqueued, also
\* when the tick and the cancellation are both ready at the select.
C19_IntakeStopsAtShutdown ==
    [][cancelled => \A c \in CollectorWorkers : ticks'[c] = ticks[c]]_vars

\* ================================================ more claims on the queue
\* C20: Close wakes every consumer parked in Dequeue, and a consumer whose
\* ctx is cancelled returns the cancellation failure at its next wake-up
\* (by Signal or Broadcast) that finds the queue empty, taking nothing and
\* leaving the queue as it is; a woken consumer always has that step to take.
C20_CloseUnblocksWaiters ==
    /\ [][lastOp'.op = "Close" =>
            \A c \in Consumers : callPc[c] = "parked" => callPc'[c] = "woken"]_vars
    /\ [][\A c \in Consumers :
            (DequeueStepOf(c) /\ callPc[c] = "woken" /\ callCtx[c]
             /\ queue.items = <<>>) =>
                /\ callPc'[c] = "idle"
                /\ lastOp'.who = c /\ lastOp'.ret = "cancelled"
                /\ received'[c] = received[c]
                /\ queue' = queue]_vars
    /\ [](\A c \in Consumers : callPc[c] = "woken" => ENABLED QDequeue(c))

\* Nothing was ever enqueued; a consumer parked, its ctx was cancelled, Close
\* woke it and its Dequeue call returned the cancellation failure.
C20_Witness ==
    /\ enqueued = <<>>
    /\ closedEver
    /\ lastOp.op = "Dequeue" /\ lastOp.resumed /\ lastOp.ret = "cancelled"
    /\ callPc[lastOp.who] = "idle"

\* Consumer c is inside a Dequeue call: about to take the mutex, parked in
\* cond.Wait, or woken and about to take the mutex again.
InDequeue(c) == callPc[c] \in {"calling", "parked", "woken"}

\* The number of items the Dequeue calls have returned so far.
TotalReceived ==
    Cardinality(UNION {{<<c, i>> : i \in DOMAIN received[c]} : c \in Consumers})

\* The consumers that Signal or Broadcast woke and that have not run yet.
WokenConsumers == {c \in Consumers : callPc[c] = "woken"}

\* C21: no lost wakeup. Under fair scheduling, whenever the queue holds an
\* item and some consumer is inside a Dequeue call, some Dequeue call
\* eventually returns an item; and while any consumer is parked, every queued
\* item has a woken consumer on its way to the mutex, so an Enqueue never
\* leaves all consumers parked with its item queued.
C21_NoLostWakeup ==
    /\ \A n \in 0..MaxEnqueues :
         (queue.items # <<>> /\ (\E c \in Consumers : InDequeue(c))
          /\ TotalReceived = n) ~> (TotalReceived > n)
    /\ []((\E c \in Consumers : callPc[c] = "parked")
            => Len(queue.items) <= Cardinality(WokenConsumers))

\* Every consumer was parked when an Enqueue came; the consumer its Signal
\* woke returned the item while another consumer stayed parked.
C21_Witness ==
    /\ lastOp.op = "Dequeue" /\ lastOp.resumed /\ lastOp.ret = "item"
    /\ ~closedEver
    /\ Len(enqueued) = 1
    /\ \E d \in Consumers \ {lastOp.who} : callPc[d] = "parked"

\* ================================================ claims on the join barrier
\* The workers that were started and have not returned.
RunningWorkers == {w \in Workers : wpc[w] \notin {"unstarted", "returned"}}

\* C22: wg.Wait() in runIndexer returns only when every started worker (one
\* collector worker per enabled source, 2 parser workers, 2 writer workers
\* and the queue-metrics worker) has returned; each worker signals the
\* barrier exactly once, when it returns, so the counter always is the number
\* of workers still running.
C22_JoinBarrierSound ==
    /\ [](wg = Cardinality(RunningWorkers))
    /\ [](mainPc \in {"serving", "waiting", "exited"} =>
            /\ \A w \in Workers : wpc[w] # "unstarted"
            /\ Cardinality(Workers) = Len(CollectorSources) + 2 + 2 + 1)
    /\ [](mainPc = "exited" => AllWorkersReturned)
    /\ [][(mainPc = "waiting" /\ mainPc' = "exited") => RunningWorkers = {}]_vars
    /\ [][\A w \in Workers :
            /\ wpc[w] = "returned" => wpc'[w] = "returned"
            /\ (wpc[w] # "returned" /\ wpc'[w] = "returned") => wg' = wg - 1]_vars
    /\ [][wg' < wg =>
            Cardinality({w \in Workers : wpc[w] # "returned" /\ wpc'[w] = "returned"}) = 1]_vars

\* wg.Wait() returned after every worker had done work and returned.
C22_Witness ==
    /\ mainPc = "exited"
    /\ wg = 0
    /\ AllWorkersReturned
    /\ \A w \in CollectorWorkers \cup {MetricsWorker} : ticks[w] > 0

\* ============================================= claims on the worker loops
\* The counters of the per-item failures.
FailureCounters == {"collect_failed", "parse_failed", "write_failed"}

\* The workers with a loop around Collect, Parse or WriteObject.
StageWorkers == CollectorWorkers \cup ParserWorkers \cup WriterWorkers

\* C23: a collector, parser or writer worker that has returned implies that
\* cancel() has fired; a step that counts a collect, parse or write failure
\* makes no worker return and changes nothing in runIndexer itself.
C23_ExitOnlyOnCancel ==
    /\ [](\A w \in StageWorkers : wpc[w] = "returned" => cancelled)
    /\ [][(\E n \in FailureCounters : counters'[n] > counters[n]) =>
            /\ \A w \in Workers : wpc'[w] = "returned" <=> wpc[w] = "returned"
            /\ wg' = wg
            /\ mainPc' = mainPc
            /\ cancelled' = cancelled]_vars

\* A parse failure and a write failure were counted, no signal has arrived
\* and every worker is still in its loop.
C23_Witness ==
    /\ counters["parse_failed"] > 0
    /\ counters["write_failed"] > 0
    /\ ~cancelled
    /\ mainPc = "serving"
    /\ RunningWorkers = Workers

\* What Collect of collector c can return with a nil error on its next tick.
CollectedFiles(c) ==
    {o.files : o \in {x \in FaultyCollectOutcomes(CollectorSources[c[2]], ticks[c] + 1) :
                        x.err = "nil"}}

\* C24: on a tick a collector worker calls Collect once. When Collect fails
\* the failure is counted, nothing is enqueued and the worker is back at its
\* select for the next tick. When it succeeds the returned files are what
\* the worker has to enqueue; it enqueues them one by one from the first, each
\* at the tail of the file queue, and takes no other step until the last of
\* them is enqueued.
C24_CollectionTick ==
    /\ [][\A c \in CollectorWorkers :
            ticks'[c] # ticks[c] =>
                /\ ticks'[c] = ticks[c] + 1
                /\ pending[c] = <<>>
                /\ fileQueue' = fileQueue /\ collected' = collected
                /\ IF counters' # counters
                   THEN /\ counters' = Inc(counters, "collect_failed")
                        /\ pending'[c] = <<>>
                        /\ wpc'[c] = "select"
                   ELSE /\ pending'[c] \in CollectedFiles(c)
                        /\ wpc'[c] = IF pending'[c] = <<>> THEN "select"
                                     ELSE "enqueue"]_vars
    /\ [][\A c \in CollectorWorkers :
            pending[c] # <<>> =>
                /\ ticks'[c] = ticks[c]
                /\ counters'["collect_failed"] = counters["collect_failed"]
                /\ \/ pending'[c] = pending[c] /\ wpc'[c] = wpc[c]
                   \/ /\ pending'[c] = Tail(pending[c])
                      /\ fileQueue'.items = Append(fileQueue.items, Head(pending[c]))
                      /\ collected' = Append(collected, Head(pending[c]))
                      /\ wpc'[c] = IF pending'[c] = <<>> THEN "select"
                                   ELSE "enqueue"]_vars
    /\ [](\A c \in CollectorWorkers : wpc[c] = "enqueue" <=> pending[c] # <<>>)

\* One tick failed and was counted; on the other tick Collect returned two
\* files, which were enqueued in the order returned.
C24_Witness ==
    \E c \in CollectorWorkers :
        /\ ticks[c] = 2
        /\ counters["collect_failed"] = 1
        /\ wpc[c] = "select"
        /\ \E t \in 1..2 : collected = MockCollect(CollectorSources[c[2]], t)
        /\ Len(collected) = 2

\* Parser worker p ends its parserRegistry.Parse call in this step.
ParseStepOf(p) == wpc[p] = "parse" /\ wpc'[p] # "parse"

\* The file a parser worker holds fails to parse.
ParseFails(p) == RegistryParse(parserRegistry, hand[p][1]).err # "nil"

\* C25: when parserRegistry.Parse returns an error for a dequeued file, the
\* parser worker counts one parse failure, enqueues nothing on the object
\* queue, puts the file on no queue, keeps nothing of it, and is back at its
\* select, from where it can dequeue the next file.
C25_ParseFailureDrops ==
    /\ [][\A p \in ParserWorkers :
            (ParseStepOf(p) /\ ParseFails(p)) =>
                /\ counters' = Inc(counters, "parse_failed")
                /\ objectQueue' = objectQueue
                /\ fileQueue' = fileQueue
                /\ hand'[p] = <<>>
                /\ pending'[p] = <<>>
                /\ wpc'[p] = "select"
                /\ written' = written]_vars
    /\ [](\A p \in ParserWorkers :
            (wpc[p] = "select" /\ ~cancelled) => ENABLED ConsumerBegin(p))

\* A damaged snapshot and the sound configuration behind it were collected:
\* the snapshot was dropped and counted, the configuration behind it was
\* parsed and its object forwarded, and both queues of files are empty.
C25_Witness ==
    /\ counters["parse_failed"] = 1
    /\ counters["objects_parsed"] = 1
    /\ \E c \in CollectorWorkers :
         collected = BrokenCollect(CollectorSources[c[2]], ticks[c])
    /\ fileQueue.items = <<>>
    /\ \A p \in ParserWorkers : hand[p] = <<>> /\ pending[p] = <<>>

\* The writer workers that hold a dequeued object not yet handed to
\* WriteObject.
HoldingWriters == {w \in WriterWorkers : hand[w] # <<>>}

\* The number of WriteObject calls that have returned.
WriteCalls == counters["objects_written"] + counters["write_failed"]

\* C26: every object a writer worker dequeues is handed to WriteObject once:
\* the objects enqueued are those still queued, those in a writer's hand and
\* those written or failed, one for one. A WriteObject call that fails is
\* counted, leaves the object queue as it is, and the worker drops the object
\* and is back at its select. With a store that refuses every write, under
\* fair scheduling, the object queue is drained again whenever it holds an
\* object, every object ends as a counted failure and nothing is stored.
C26_SingleAttemptWrite ==
    /\ [](counters["objects_parsed"]
            = Len(objectQueue.items) + Cardinality(HoldingWriters) + WriteCalls)
    /\ [][\A w \in WriterWorkers :
            (wpc[w] = "write" /\ wpc'[w] # "write") =>
                /\ hand'[w] = <<>>
                /\ wpc'[w] = "select"
                /\ objectQueue' = objectQueue
                /\ fileQueue' = fileQueue
                /\ WriteCalls' = WriteCalls + 1
                /\ counters'["write_failed"] > counters["write_failed"]
                     => written' = written]_vars
    /\ [](written = <<>> /\ counters["objects_written"] = 0)
    /\ (objectQueue.items # <<>>) ~> (objectQueue.items = <<>>)
    /\ \A n \in 0..(2 * MaxTicks * Len(CollectorSources)) :
         (counters["objects_parsed"] = n) ~> (counters["write_failed"] >= n)

\* Every object of the run was enqueued, dequeued and refused by the store
\* once; the object queue is empty and nothing is stored.
C26_Witness ==
    /\ counters["objects_parsed"] >= 2
    /\ counters["write_failed"] = counters["objects_parsed"]
    /\ objectQueue.items = <<>>
    /\ HoldingWriters = {}
    /\ written = <<>>

\* What parserRegistry.Parse returns for the file parser worker p holds.
OutputOf(p) == RegistryParse(parserRegistry, hand[p][1])

\* Sequence s is what is left of sequence t after some of its first elements
\* were removed.
IsSuffix(s, t) ==
    \E k \in 0..Len(t) : s = SubSeq(t, k + 1, Len(t))

\* C27: when a parser worker has dequeued a file and parserRegistry.Parse
\* returned no error, what the worker has to forward is the whole output, of
\* which every object carries the id of that file as its FileID; the worker
\* enqueues the objects one by one from the first, each at the tail of the
\* object queue, so that each is enqueued once and in output order, and under
\* fair scheduling it enqueues them all.
C27_StageForwarding ==
    /\ [][\A p \in ParserWorkers :
            (ParseStepOf(p) /\ ~ParseFails(p)) =>
                /\ pending'[p] = OutputOf(p).objects
                /\ \A k \in DOMAIN pending'[p] : pending'[p][k].FileID = hand[p][1].ID
                /\ objectQueue' = objectQueue
                /\ wpc'[p] = IF pending'[p] = <<>> THEN "select" ELSE "enqueue"]_vars
    /\ [][\A p \in ParserWorkers :
            pending[p] # <<>> =>
                \/ pending'[p] = pending[p] /\ wpc'[p] = wpc[p] /\ hand'[p] = hand[p]
                \/ /\ pending'[p] = Tail(pending[p])
                   /\ objectQueue'.items = Append(objectQueue.items, Head(pending[p]))
                   /\ counters' = Inc(counters, "objects_parsed")]_vars
    /\ [](\A p \in ParserWorkers :
            /\ wpc[p] = "enqueue" <=> pending[p] # <<>>
            /\ pending[p] # <<>> =>
                 /\ hand[p] # <<>>
                 /\ IsSuffix(pending[p], OutputOf(p).objects)
                 /\ \A k \in DOMAIN pending[p] : pending[p][k].FileID = hand[p][1].ID)
    /\ \A p \in ParserWorkers : (pending[p] # <<>>) ~> (pending[p] = <<>>)

\* A file whose parse gives two objects was the first to be forwarded: both
\* objects are on the object queue, in output order, with the file's id.
C27_Witness ==
    /\ Len(objectQueue.items) = 2
    /\ counters["objects_parsed"] = 2
    /\ \E f \in Range(collected) :
         /\ objectQueue.items = RegistryParse(parserRegistry, f).objects
         /\ \A k \in 1..2 : objectQueue.items[k].FileID = f.ID
         /\ objectQueue.items[1] # objectQueue.items[2]
    /\ \A p \in ParserWorkers : pending[p] = <<>>

\* ============================================ more claims on the parsers
\* Block b is of a type of the schema and has the number of labels the
\* schema gives that type.
SchemaOk(b) == b.Type \in DOMAIN BlockLabels /\ Len(b.Labels) = BlockLabels[b.Type]

\* Block b is of a type of the schema and has another number of labels.
SchemaBroken(b) == b.Type \in DOMAIN BlockLabels /\ Len(b.Labels) # BlockLabels[b.Type]

\* The file under test fails to decode as a whole: a snapshot that is no
\* JSON, a configuration that is no HCL, or a configuration with a block
\* that does not fit the schema.
FailsToDecode ==
    \/ parseFile.FileType = "tfstate" /\ ~parseFile.Content.decodes
    \/ /\ parseFile.FileType = "tf"
       /\ \/ ParseHCLFails(parseFile.Content)
          \/ \E k \in DOMAIN parseFile.Content.blocks :
                SchemaBroken(parseFile.Content.blocks[k])

\* C28: when a state snapshot fails its top-level decoding, or a
\* configuration fails syntax or block-schema decoding, Parse returns an
\* error and no object at all for the file, also when other blocks of the
\* file are well formed.
C28_FileLevelStrictness ==
    FailsToDecode =>
        \A r \in DOMAIN parseRuns :
            /\ parseRuns[r].err # "nil"
            /\ parseRuns[r].objects = <<>>

\* A configuration of valid syntax with a well-formed block and a block of
\* one label too few was parsed: the file failed and gave no object.
C28_Witness ==
    /\ parseFile.FileType = "tf"
    /\ ~ParseHCLFails(parseFile.Content)
    /\ Len(parseFile.Content.blocks) = 2
    /\ \E i, j \in DOMAIN parseFile.Content.blocks :
         /\ SchemaOk(parseFile.Content.blocks[i])
         /\ ~parseFile.Content.blocks[i].Nested
         /\ SchemaBroken(parseFile.Content.blocks[j])
    /\ parseRuns # <<>>
    /\ parseRuns[1].err # "nil"
    /\ parseRuns[1].objects = <<>>

\* ============================================ claims on the size of the queue
\* C29: the value Size returns is the number of successful Enqueue calls
\* minus the number of Dequeue calls that returned an item, as of the moment
\* Size holds the lock; it is never negative, and Size changes nothing in
\* the queue or in any caller.
C29_SizeIsExactCount ==
    /\ [](Size(queue) = Len(enqueued) - TotalReceived /\ Size(queue) >= 0)
    /\ [][lastOp'.op = "Size" =>
            /\ lastOp'.item = Len(enqueued) - TotalReceived
            /\ lastOp'.item >= 0
            /\ UNCHANGED <<queue, callPc, callCtx, received, enqueued,
                           firstTake, closedEver>>]_vars

\* Size was called after three Enqueue calls and one Dequeue call that
\* returned an item.
C29_Witness ==
    /\ lastOp.op = "Size"
    /\ lastOp.item = 2
    /\ Len(enqueued) = 3
    /\ TotalReceived = 1

\* ======================================= claims on the timer-driven workers
\* The workers whose loop waits on a ticker.
TimerWorkers == CollectorWorkers \cup {MetricsWorker}

\* C30: under fair scheduling every collector worker and the queue-metrics
\* worker returns after cancel() has fired, whatever the two queues hold
\* and whatever the parser and writer workers do: a timer-driven worker is
\* never inside Dequeue, and the Enqueue of a collector worker can always
\* proceed.
C30_TimerLoopsTerminate ==
    /\ \A w \in TimerWorkers : cancelled ~> (wpc[w] = "returned")
    /\ [](\A w \in TimerWorkers :
            wpc[w] \in {"unstarted", "select", "enqueue", "returned"})
    /\ [](\A c \in CollectorWorkers :
            wpc[c] = "enqueue" => ENABLED CollectorEnqueue(c))
    /\ [](\A w \in TimerWorkers :
            (wpc[w] = "select" /\ cancelled) =>
                ENABLED (CollectorExit(w) \/ MetricsExit))

\* The timer-driven workers have returned after a cancellation that left
\* files on the file queue and a writer worker parked inside Dequeue.
C30_Witness ==
    /\ cancelled
    /\ \A w \in TimerWorkers : wpc[w] = "returned"
    /\ fileQueue.items # <<>>
    /\ \E w \in WriterWorkers : wpc[w] = "parked"

\* ======================================= claims on the store of the pipeline
\* The ids of the rows of terraform_files in the database of runIndexer.
\* DatabaseWriter.WriteFile is the one statement that inserts into that
\* table, and no step of runIndexer or of its workers calls it (nor
\* WriteBatch): the table stays as Migrate left it.
StoredFileIds == {f.ID : f \in store.files}

\* C31: whenever a writer worker calls WriteObject for an object, the file
\* whose id is the object's FileID has been written to terraform_files
\* before, so that the foreign key of terraform_objects.file_id holds for
\* the write.
C31_FileStoredBeforeObjects ==
    [][\A w \in WriterWorkers :
         (wpc[w] = "write" /\ wpc'[w] # "write")
            => hand[w][1].FileID \in StoredFileIds]_vars

\* ====================================== claims on the ids of configurations
\* C32: two objects of one configuration whose blocks have different
\* addresses (two resources of different types with one name, a resource
\* and a data source) have different ids.
C32_DistinctBlocksDistinctIds ==
    parseFile.FileType = "tf" =>
        \A r \in DOMAIN parseRuns :
            \A i, j \in DOMAIN parseRuns[r].objects :
                parseRuns[r].objects[i].Address # parseRuns[r].objects[j].Address
                    => parseRuns[r].objects[i].ID # parseRuns[r].objects[j].ID

\* ================================================ claims on conservation
\* The parser workers that hold a dequeued file not yet handed to
\* parserRegistry.Parse.
HoldingParsers(f) == {p \in ParserWorkers : wpc[p] = "parse" /\ hand[p] = <<f>>}

\* C33: the objects enqueued on the object queue are those still queued,
\* those in a writer worker's hand and those counted as written or as write
\* failures, one for one. Every file enqueued on the file queue is queued at
\* most once or held by at most one parser worker, never both; a file leaves
\* the file queue only from its head into the hand of the parser worker that
\* dequeued it, leaves that hand only by being dispatched, and comes onto the
\* file queue only when a collector worker enqueues it.
C33_PipelineConservation ==
    /\ [](counters["objects_parsed"]
            = Len(objectQueue.items) + Cardinality(HoldingWriters) + WriteCalls)
    /\ [](counters["files_collected"] = Len(collected))
    /\ [](\A f \in Range(collected) :
            Count(fileQueue.items, f) + Cardinality(HoldingParsers(f)) <= 1)
    /\ [](\A f \in Range(fileQueue.items) \cup
                   {hand[p][1] : p \in {q \in ParserWorkers : hand[q] # <<>>}} :
            f \in Range(collected))
    /\ [][fileQueue'.items # fileQueue.items =>
            \/ /\ Len(collected') = Len(collected) + 1
               /\ fileQueue'.items = Append(fileQueue.items, collected'[Len(collected')])
            \/ /\ collected' = collected
               /\ fileQueue'.items = Tail(fileQueue.items)
               /\ Cardinality({p \in ParserWorkers :
                                 /\ wpc[p] \in {"dequeue", "woken"}
                                 /\ wpc'[p] = "parse"
                                 /\ hand'[p] = <<Head(fileQueue.items)>>}) = 1]_vars
    /\ [][\A p \in ParserWorkers :
            (wpc[p] = "parse" /\ wpc'[p] # "parse") =>
                /\ fileQueue' = fileQueue
                /\ \/ ParseFails(p) /\ counters' = Inc(counters, "parse_failed")
                   \/ ~ParseFails(p) /\ pending'[p] = OutputOf(p).objects]_vars

\* After the shutdown every worker has returned; one of the two collected
\* files was dispatched, and the other file and the object of the first are
\* still on their queues, where nobody took them.
C33_Witness ==
    /\ cancelled
    /\ AllWorkersReturned
    /\ Len(collected) = 2
    /\ Len(fileQueue.items) = 1
    /\ Len(objectQueue.items) = 1
    /\ WriteCalls = 0
    /\ counters["objects_parsed"] = 1

\* ==================================== claims on Dequeue and the cancellation
\* C34: a Dequeue call that holds the mutex and finds the queue non-empty
\* returns the head item and no error, also when the caller's ctx is
\* cancelled; the cancellation failure is returned only when the queue was
\* found empty, and returning it leaves the queue as it is.
C34_ItemsWinOverCancel ==
    /\ [][\A c \in Consumers :
            (DequeueStepOf(c) /\ queue.items # <<>>) =>
                /\ callPc'[c] = "idle"
                /\ lastOp'.ret = "item"
                /\ lastOp'.item = Head(queue.items)
                /\ received'[c] = Append(received[c], Head(queue.items))
                /\ queue'.items = Tail(queue.items)]_vars
    /\ [][(lastOp'.op = "Dequeue" /\ lastOp'.ret = "cancelled") =>
            /\ queue.items = <<>>
            /\ lastOp'.ctx
            /\ queue' = queue
            /\ received' = received]_vars

\* A Dequeue call whose ctx was cancelled found an item and returned it.
C34_Witness ==
    /\ lastOp.op = "Dequeue" /\ lastOp.ctx /\ lastOp.ret = "item"
    /\ lastOp.item >= 1
    /\ lastOp.item \in Range(received[lastOp.who])

\* ======================================== claims on work after cancellation
\* The workers that consume from a queue.
QueueWorkers == ParserWorkers \cup WriterWorkers

\* Worker w is inside a Dequeue call and can take the mutex.
AtDequeue(w) == wpc[w] \in {"dequeue", "woken"}

\* C35: after cancel() has fired a parser or writer worker obtains at most
\* one more item. An item is obtained only by a step out of Dequeue; after
\* the cancellation such a step ends with an item in hand or with the return
\* of the worker, and a worker that is outside Dequeue (at its select, or
\* working on an item) never enters Dequeue again. So what is still queued
\* then is never processed: once the parser workers have returned no file
\* leaves the file queue, and once the writer workers have returned no object
\* leaves the object queue and none is written.
C35_BoundedWorkAfterCancel ==
    /\ [][cancelled => cancelled']_vars
    /\ [][\A w \in QueueWorkers :
            (hand'[w] # hand[w] /\ hand'[w] # <<>>) => AtDequeue(w)]_vars
    /\ [][\A w \in QueueWorkers :
            (cancelled /\ AtDequeue(w) /\ wpc'[w] # wpc[w]) =>
                \/ wpc'[w] \in {"parse", "write"} /\ hand'[w] # <<>>
                \/ wpc'[w] = "returned" /\ hand'[w] = <<>>]_vars
    /\ [][\A w \in QueueWorkers :
            (cancelled /\ wpc[w] \in {"select", "parse", "write", "enqueue", "returned"})
                => wpc'[w] \in {"select", "parse", "write", "enqueue", "returned"}]_vars
    /\ [][(\A p \in ParserWorkers : wpc[p] = "returned") =>
            Len(fileQueue'.items) >= Len(fileQueue.items)]_vars
    /\ [][(\A w \in WriterWorkers : wpc[w] = "returned") =>
            /\ Len(objectQueue'.items) >= Len(objectQueue.items)
            /\ written' = written
            /\ WriteCalls' = WriteCalls]_vars

\* After the cancellation every writer worker has returned while a parser
\* worker still has an object to enqueue, which nobody will write; a file is
\* left on the file queue.
C35_Witness ==
    /\ cancelled
    /\ \A w \in WriterWorkers : wpc[w] = "returned"
    /\ \E p \in ParserWorkers : wpc[p] = "enqueue" /\ pending[p] # <<>>
    /\ fileQueue.items # <<>>

\* =========================================== claims on the provider name
\* The name the claim gives provider string p: the part after the last "/"
\* up to the first '"' or ']' behind it; p itself when it holds no "/".
NameAfterLastSlash(p) ==
    LET n == Len(p)
        slashes == {i \in 1..n : p[i] = "/"}
        from == LastOf(slashes) + 1
        stops == {i \in from..n : p[i] \in {"\"", "]"}}
        to == IF stops = {} THEN n ELSE FirstOf(stops) - 1
    IN IF slashes = {} THEN p ELSE SubSeq(p, from, to)

\* C36: for a non-empty provider string extractProviderName returns the
\* part after the last "/", cut at the first '"' or ']' that follows; for a
\* string without "/" it returns the string unchanged, and for the empty
\* string the empty string.
C36_ProviderNameExtraction ==
    extraction.called => extraction.name = NameAfterLastSlash(provider)
====
